---- MODULE Spec2Model ----
(***************************************************************************)
(* Riing Trio controller (src/src/main.rs): the device protocol layer, the *)
(* effect engine, the temperature-reactive engine and the daemon loop.     *)
(*                                                                         *)
(* Conventions                                                             *)
(*   Option<T>     None is <<>>, Some(x) is <<x>>.                         *)
(*   Result<T>     a record [ok |-> TRUE, val |-> v] or                    *)
(*                 [ok |-> FALSE, err |-> chain]; chain is the anyhow      *)
(*                 error chain, outermost message first; a message is the  *)
(*                 sequence of the literal pieces and the formatted        *)
(*                 arguments of its format string.                         *)
(*   u32           a record [hi, lo] of two 16-bit halves (the value is    *)
(*                 hi * 65536 + lo), so that the full 32-bit width is kept. *)
(*   f32           brightness and blend factors are fractions <<n, d>>     *)
(*                 with d a power of two, for which the f32 arithmetic of  *)
(*                 the source is exact; temperatures are tenths of a       *)
(*                 degree.                                                 *)
(*   Vec index     Rust index i is TLA+ index i + 1.                       *)
(***************************************************************************)
EXTENDS Integers, Sequences, FiniteSets, TLC

VARIABLES
    cli,        \* the parsed command line: the subcommand and its arguments
    config,     \* the loaded configuration (read once, never changed)
    pc,         \* position of the program
    idx,        \* position inside the current sweep over the ports
    frame,      \* run_daemon: frame (u32)
    speed_age,  \* seconds since last_speed_apply, capped at the interval
    tr,         \* temp_reactive_ports: port -> TempReactiveState
    last,       \* record of the most recent step: the calls made, their
                \* results and the reports exchanged (history variable)
    hist,       \* per temperature port: the most recent zone switch
                \* (history variable)
    call,       \* argument/result pair of a pure function applied in
                \* SpecStatus (history variable)
    setup       \* the calls made before the daemon loop is entered, or by
                \* the single command, in order (history variable)

vars == <<cli, config, pc, idx, frame, speed_age, tr, last, hist, call, setup>>

None == <<>>
Some(x) == <<x>>
IsSome(o) == o # <<>>
Unwrap(o) == o[1]

Min(a, b) == IF a < b THEN a ELSE b

Ok(v) == [ok |-> TRUE, val |-> v]
Err(chain) == [ok |-> FALSE, err |-> chain]
\* anyhow's .context(msg): a new outermost message in front of the chain
Context(res, msg) == IF res.ok THEN res ELSE Err(<<msg>> \o res.err)
\* `let v = res?; rest(v)`: the error is returned, a value is handed on
AndThen(res, rest(_)) == IF res.ok THEN rest(res.val) ELSE res
\* Result::ok
OkOf(res) == IF res.ok THEN Some(res.val) ELSE None
\* Option::unwrap_or
UnwrapOr(opt, default) == IF IsSome(opt) THEN Unwrap(opt) ELSE default

(***************************************************************************)
(* u32 arithmetic of the frame counter                                     *)
(***************************************************************************)
HALF == 65536

U32(h, l) == [hi |-> h, lo |-> l]
U32Zero == U32(0, 0)
U32Max == U32(HALF - 1, HALF - 1)
U32Of(n) == U32(n \div HALF, n % HALF)

U32Less(a, b) == a.hi < b.hi \/ (a.hi = b.hi /\ a.lo < b.lo)

\* frame.saturating_add(1), which stays at the u32 maximum
saturating_add_1(f) ==
    IF f.lo < HALF - 1 THEN U32(f.hi, f.lo + 1)
    ELSE IF f.hi < HALF - 1 THEN U32(f.hi + 1, 0)
    ELSE f

\* frame.wrapping_add(1)
wrapping_add_1(f) ==
    IF f.lo < HALF - 1 THEN U32(f.hi, f.lo + 1)
    ELSE IF f.hi < HALF - 1 THEN U32(f.hi + 1, 0)
    ELSE U32Zero

\* a - b for b <= a
U32Minus(a, b) ==
    IF a.lo >= b.lo THEN U32(a.hi - b.hi, a.lo - b.lo)
    ELSE U32(a.hi - b.hi - 1, a.lo + HALF - b.lo)

\* a.saturating_sub(b)
saturating_sub(a, b) == IF U32Less(a, b) THEN U32Zero ELSE U32Minus(a, b)

\* f % m for a small modulus m, and f < n for a small n
U32Mod(f, m) == ((f.hi * (HALF % m)) + f.lo) % m
U32Below(f, n) == f.hi = 0 /\ f.lo < n

(***************************************************************************)
(* Color model                                                             *)
(***************************************************************************)
Color(r, g, b) == [r |-> r, g |-> g, b |-> b]
OFF == Color(0, 0, 0)
WHITE == Color(255, 255, 255)
RED == Color(255, 0, 0)
GREEN == Color(0, 255, 0)
BLUE == Color(0, 0, 255)
MAGENTA == Color(255, 0, 255)
CYAN == Color(0, 255, 255)
YELLOW == Color(255, 255, 0)
ORANGE == Color(255, 165, 0)
PURPLE == Color(128, 0, 128)
PINK == Color(255, 192, 203)
LIME == Color(0, 255, 0)
SKY == Color(135, 206, 235)

\* Color::from_str, of a name in lower case
Color_from_str(s) ==
    CASE s \in {"off", "black"} -> Some(OFF)
      [] s = "white" -> Some(WHITE)
      [] s = "red" -> Some(RED)
      [] s = "green" -> Some(GREEN)
      [] s = "blue" -> Some(BLUE)
      [] s = "cyan" -> Some(CYAN)
      [] s = "magenta" -> Some(MAGENTA)
      [] s = "yellow" -> Some(YELLOW)
      [] s = "orange" -> Some(ORANGE)
      [] s = "purple" -> Some(PURPLE)
      [] s = "pink" -> Some(PINK)
      [] s = "lime" -> Some(LIME)
      [] s = "sky" -> Some(SKY)
      [] OTHER -> None

\* Color::to_grb_bytes
to_grb_bytes(c) == <<c.g, c.r, c.b>>

\* brightness.clamp(0.0, 1.0) of a fraction <<n, d>>
Clamp01(x) == IF x[1] < 0 THEN <<0, 1>> ELSE IF x[1] > x[2] THEN <<1, 1>> ELSE x

\* (channel as f32 * brightness) as u8: the product truncated
Scale(ch, x) == (ch * x[1]) \div x[2]

\* Color::with_brightness
with_brightness(c, brightness) ==
    LET x == Clamp01(brightness)
    IN  Color(Scale(c.r, x), Scale(c.g, x), Scale(c.b, x))

\* (a as f32 * (1.0 - t) + b as f32 * t) as u8
Mix(a, b, x) == (a * (x[2] - x[1]) + b * x[1]) \div x[2]

\* Color::lerp
lerp(c, other, t) ==
    LET x == Clamp01(t)
    IN  Color(Mix(c.r, other.r, x), Mix(c.g, other.g, x), Mix(c.b, other.b, x))

\* a blend that leaves out the last LED (a mutation of interpolate_colors)
interpolate_colors_drops_last(from, to, t) ==
    [i \in 1..(Min(Len(from), Len(to)) - 1) |-> lerp(from[i], to[i], t)]

\* interpolate_colors: zip stops at the shorter sequence
interpolate_colors(from, to, t) ==
    [i \in 1..Min(Len(from), Len(to)) |-> lerp(from[i], to[i], t)]

Repeat(c, n) == [i \in 1..n |-> c]

(***************************************************************************)
(* Effect engine                                                           *)
(***************************************************************************)
\* EffectSpeed::frames_per_cycle
frames_per_cycle(speed) ==
    CASE speed = "Extreme" -> 30
      [] speed = "Fast" -> 60
      [] speed = "Normal" -> 120
      [] speed = "Slow" -> 240

\* EffectSpeed::from_str, of a name in lower case
EffectSpeed_from_str(s) ==
    IF s \in {"extreme", "fast", "normal", "slow"}
    THEN Some(CASE s = "extreme" -> "Extreme" [] s = "fast" -> "Fast"
                [] s = "normal" -> "Normal" [] s = "slow" -> "Slow")
    ELSE None

Static(color) == [kind |-> "Static", color |-> color]
Spectrum(speed) == [kind |-> "Spectrum", speed |-> speed]
Wave(color, speed) == [kind |-> "Wave", color |-> color, speed |-> speed]
Pulse(color, speed) == [kind |-> "Pulse", color |-> color, speed |-> speed]
Flow(colors, speed) == [kind |-> "Flow", colors |-> colors, speed |-> speed]
Ripple(color, speed) == [kind |-> "Ripple", color |-> color, speed |-> speed]
Blink(color, speed) == [kind |-> "Blink", color |-> color, speed |-> speed]
TempReactive(cfg) == [kind |-> "TempReactive", config |-> cfg]

\* Effect::generate, Blink arm
generate_blink(e, f, led_count, brightness) ==
    LET cycle_frames == frames_per_cycle(e.speed)
        half_cycle == cycle_frames \div 2
        is_on == U32Mod(f, cycle_frames) < half_cycle
    IN  IF is_on THEN Repeat(with_brightness(e.color, brightness), led_count)
        ELSE Repeat(OFF, led_count)

(***************************************************************************)
(* f32 arithmetic of the Flow effect.  A finite non-negative f32 is        *)
(* [m |-> mantissa, e |-> exponent] with value m * 2^(e - 23), where       *)
(* 2^23 <= m < 2^24, or m = 0 for zero; every operation rounds to nearest, *)
(* ties to even, as the IEEE 754 operations of the build do                *)
(***************************************************************************)
MANT == 8388608

F32Zero == [m |-> 0, e |-> 0]

\* the f32 with mantissa m and exponent e next to a remainder of num/den of
\* a unit in the last place (0 <= num < den): rounded to nearest, ties to even
F32Round(m, e, num, den) ==
    LET up == 2 * num > den \/ (2 * num = den /\ m % 2 = 1)
        r == IF up THEN m + 1 ELSE m
    IN  IF r = 2 * MANT THEN [m |-> MANT, e |-> e + 1] ELSE [m |-> r, e |-> e]

\* the f32 of value m * 2^(e - 23) for 0 <= m < 2^24 (exact)
F32Norm(m, e) ==
    IF m = 0 THEN F32Zero
    ELSE LET k == CHOOSE j \in 0..23 : MANT <= m * 2 ^ j /\ m * 2 ^ j < 2 * MANT
         IN  [m |-> m * 2 ^ k, e |-> e - k]

\* k more bits of the quotient by d, from mantissa m and remainder r
RECURSIVE DivBits(_, _, _, _)
DivBits(r, d, m, k) ==
    IF k = 0 THEN [m |-> m, r |-> r]
    ELSE LET bit == IF 2 * r >= d THEN 1 ELSE 0
         IN  DivBits(2 * r - bit * d, d, 2 * m + bit, k - 1)

\* a as f32 / d as f32 for integers 0 <= a < d < 2^24 (both exact as f32)
F32Div(a, d) ==
    IF a = 0 THEN F32Zero
    ELSE LET s == CHOOSE j \in 1..24 : d <= a * 2 ^ j /\ a * 2 ^ j < 2 * d
             q == DivBits(a * 2 ^ s - d, d, 1, 23)
         IN  F32Round(q.m, 0 - s, q.r, d)

\* x + y
F32Add(x, y) ==
    IF x.m = 0 THEN y
    ELSE IF y.m = 0 THEN x
    ELSE LET hi == IF x.e >= y.e THEN x ELSE y
             lo == IF x.e >= y.e THEN y ELSE x
             d == hi.e - lo.e
         IN  IF d > 25 THEN hi
             ELSE LET sum == hi.m + lo.m \div 2 ^ d
                      rest == lo.m % 2 ^ d
                  IN  IF sum < 2 * MANT
                      THEN F32Round(sum, hi.e, rest, 2 ^ d)
                      ELSE F32Round(sum \div 2, hi.e + 1, (sum % 2) * 2 ^ d + rest,
                                    2 ^ (d + 1))

\* x % 1.0 (exact)
F32Rem1(x) ==
    IF x.m = 0 \/ x.e < 0 THEN x
    ELSE IF x.e >= 23 THEN F32Zero
    ELSE F32Norm(x.m % 2 ^ (23 - x.e), x.e)

\* x * (n as f32) for an integer 0 <= n < 128
F32MulInt(x, n) ==
    IF x.m = 0 \/ n = 0 THEN F32Zero
    ELSE LET p == x.m * n
             k == CHOOSE j \in 0..7 : p < 2 ^ j * 2 * MANT /\ (j = 0 \/ p >= 2 ^ j * MANT)
         IN  F32Round(p \div 2 ^ k, x.e + k, p % 2 ^ k, 2 ^ k)

\* x as usize, for x < 2^24
F32Trunc(x) == IF x.m = 0 \/ x.e < 0 THEN 0 ELSE x.m \div 2 ^ (23 - x.e)

\* color_idx without the frame offset (a mutation of flow_color_idx)
flow_color_idx_ignores_frame(i, f, led_count, cycle_frames, n) ==
    F32Trunc(F32MulInt(F32Rem1(F32Div(i, led_count)), n)) % n

\* Effect::generate, Flow arm: color_idx of LED i
flow_color_idx(i, f, led_count, cycle_frames, n) ==
    LET offset == F32Div(U32Mod(f, cycle_frames), cycle_frames)
        pos == F32Rem1(F32Add(F32Div(i, led_count), offset))
    IN  F32Trunc(F32MulInt(pos, n)) % n

\* Effect::generate, Flow arm
generate_flow(e, f, led_count, brightness) ==
    IF e.colors = <<>> THEN Repeat(OFF, led_count)
    ELSE [k \in 1..led_count |->
            with_brightness(
                e.colors[flow_color_idx(k - 1, f, led_count, frames_per_cycle(e.speed),
                                        Len(e.colors)) + 1],
                brightness)]

\* Effect::generate, the arms of Spectrum, Wave, Pulse and Ripple.  What they
\* compute through sin and from_hsv is taken as given: level stands for the
\* value of sin(..) * 0.5 + 0.5 (for Spectrum, hue for the color from_hsv
\* returns), here the same for every LED.  The shape is the code's: one entry
\* per index of 0..led_count, the color scaled by level * brightness.
generate_animated(e, led_count, brightness, level, hue) ==
    LET intensity == <<level[1] * brightness[1], level[2] * brightness[2]>>
    IN  CASE e.kind = "Spectrum" -> [i \in 1..led_count |-> with_brightness(hue, brightness)]
          [] e.kind = "Pulse" -> Repeat(with_brightness(e.color, intensity), led_count)
          [] e.kind \in {"Wave", "Ripple"} ->
                [i \in 1..led_count |-> with_brightness(e.color, intensity)]

\* Effect::generate, the arms computed in full (no configuration followed
\* here renders Spectrum, Wave, Pulse or Ripple)
generate(e, f, led_count, brightness) ==
    CASE e.kind = "Static" -> Repeat(with_brightness(e.color, brightness), led_count)
      [] e.kind = "Blink" -> generate_blink(e, f, led_count, brightness)
      [] e.kind = "Flow" -> generate_flow(e, f, led_count, brightness)
      [] e.kind = "TempReactive" -> Repeat(OFF, led_count)

(***************************************************************************)
(* Device protocol layer.  Every operation takes the device's behaviour    *)
(* for each exchange it may make (a reply) and yields its result together  *)
(* with the reports it exchanged (io) and whether it panicked.             *)
(* An exchange (an element of io) is a write of one report or one timed   *)
(* read (read_timeout with 1000 ms), each with the device's behaviour.     *)
(*   reply.kind   "write_err"  HidDevice::write fails                      *)
(*                "read_err"   read_timeout fails                          *)
(*                "timeout"    read_timeout returns 0 bytes                *)
(*                "data"       read_timeout returns reply.bytes            *)
(***************************************************************************)
REPORT_SIZE == 65
MAX_COLORS_PER_CHUNK == 19
STATUS_SUCCESS == 252
STATUS_FAILURE == 254
STATUS_BYTE_INDEX == 2
RGB_CHUNK_COUNT == 2
MODE_PER_LED == 36

Done(res, io) == [res |-> res, io |-> io, panic |-> FALSE]
Panicked(io) == [res |-> Err(<<<<"panic">>>>), io |-> io, panic |-> TRUE]

\* the report buffer: byte 0 is the report id, the payload follows, the rest
\* is zero; a payload longer than REPORT_SIZE - 1 is cut
Report(payload) ==
    LET copy_len == Min(Len(payload), REPORT_SIZE - 1)
    IN  [i \in 1..REPORT_SIZE |->
            IF i >= 2 /\ i <= 1 + copy_len THEN payload[i - 1] ELSE 0]

\* RiingTrioController::write_bytes
write_bytes(payload, reply) ==
    LET ev == [ev |-> "write", report |-> Report(payload), reply |-> reply]
    IN  IF reply.kind = "write_err"
        THEN Done(Err(<<<<"Failed to write to HID device">>, <<"hid write error">>>>), <<ev>>)
        ELSE Done(Ok(<<>>), <<ev>>)

\* RiingTrioController::read_bytes: the whole REPORT_SIZE buffer is returned,
\* whatever the number of bytes read
read_bytes(reply) ==
    LET ev == [ev |-> "read", report |-> <<>>, reply |-> reply]
        buffer == [i \in 1..REPORT_SIZE |->
                      IF i <= Len(reply.bytes) THEN reply.bytes[i] ELSE 0]
    IN  CASE reply.kind = "data" /\ Len(reply.bytes) > 0 -> Done(Ok(buffer), <<ev>>)
          [] reply.kind = "read_err" ->
                Done(Err(<<<<"Failed to read from HID device: ", "hid read error">>>>), <<ev>>)
          [] OTHER ->
                Done(Err(<<<<"Timeout: No response from device after 1000ms">>>>), <<ev>>)

\* write_read_bytes sending the report once more after a failed read (a
\* mutation of write_read_bytes)
write_read_bytes_retry(payload, reply) ==
    LET w == write_bytes(payload, reply)
    IN  IF ~w.res.ok THEN w
        ELSE LET r == read_bytes(reply)
             IN  IF r.res.ok THEN Done(r.res, w.io \o r.io)
                 ELSE Done(r.res, w.io \o r.io \o w.io \o r.io)

\* RiingTrioController::write_read_bytes
write_read_bytes(payload, reply) ==
    LET w == write_bytes(payload, reply)
    IN  IF ~w.res.ok THEN w
        ELSE LET r == read_bytes(reply) IN Done(r.res, w.io \o r.io)

\* check_response_status reading the status at index 3, the offset of the
\* report with its report id (a mutation of check_response_status)
check_response_status_offset3(response, operation) ==
    IF Len(response) <= STATUS_BYTE_INDEX + 1
    THEN Err(<<operation \o <<" failed: Response too short (", ToString(Len(response)), " bytes)">>>>)
    ELSE LET status == response[STATUS_BYTE_INDEX + 2]
         IN  CASE status = STATUS_SUCCESS -> Ok(<<>>)
               [] status = STATUS_FAILURE ->
                     Err(<<operation \o <<" failed: Device returned error (0xFE)">>>>)
               [] OTHER ->
                     Err(<<operation \o <<" failed: Unexpected status 0x", ToString(status),
                                          " (expected 0xFC)">>>>)

\* RiingTrioController::check_response_status
check_response_status(response, operation) ==
    IF Len(response) <= STATUS_BYTE_INDEX
    THEN Err(<<operation \o <<" failed: Response too short (", ToString(Len(response)), " bytes)">>>>)
    ELSE LET status == response[STATUS_BYTE_INDEX + 1]
         IN  CASE status = STATUS_SUCCESS -> Ok(<<>>)
               [] status = STATUS_FAILURE ->
                     Err(<<operation \o <<" failed: Device returned error (0xFE)">>>>)
               [] OTHER ->
                     Err(<<operation \o <<" failed: Unexpected status 0x", ToString(status),
                                          " (expected 0xFC)">>>>)

\* RiingTrioController::init
init(reply) ==
    LET x == write_read_bytes(<<254, 51>>, reply)
        response == Context(x.res, <<"Init command failed">>)
    IN  IF ~response.ok THEN Done(response, x.io)
        ELSE Done(check_response_status(response.val, <<"Init">>), x.io)

\* set_speed validating its arguments after the exchange (a mutation of
\* set_speed)
set_speed_validates_late(port, speed, reply) ==
    LET x == write_read_bytes(<<50, 81, port, 1, speed>>, reply)
        response == Context(x.res, <<"Set speed command failed">>)
    IN  IF ~(port \in 1..5)
        THEN Done(Err(<<<<"Invalid port ", ToString(port), ". Must be 1-5">>>>), x.io)
        ELSE IF speed > 100
        THEN Done(Err(<<<<"Invalid speed ", ToString(speed), ". Must be 0-100">>>>), x.io)
        ELSE IF ~response.ok THEN Done(response, x.io)
        ELSE Done(check_response_status(response.val, <<"Set speed">>), x.io)

\* set_speed with the last two command bytes exchanged (a mutation of
\* set_speed)
set_speed_swapped_bytes(port, speed, reply) ==
    IF ~(port \in 1..5)
    THEN Done(Err(<<<<"Invalid port ", ToString(port), ". Must be 1-5">>>>), <<>>)
    ELSE IF speed > 100
    THEN Done(Err(<<<<"Invalid speed ", ToString(speed), ". Must be 0-100">>>>), <<>>)
    ELSE LET x == write_read_bytes(<<50, 81, port, speed, 1>>, reply)
             response == Context(x.res, <<"Set speed command failed">>)
         IN  IF ~response.ok THEN Done(response, x.io)
             ELSE Done(check_response_status(response.val, <<"Set speed">>), x.io)

\* RiingTrioController::set_speed
set_speed(port, speed, reply) ==
    IF ~(port \in 1..5)
    THEN Done(Err(<<<<"Invalid port ", ToString(port), ". Must be 1-5">>>>), <<>>)
    ELSE IF speed > 100
    THEN Done(Err(<<<<"Invalid speed ", ToString(speed), ". Must be 0-100">>>>), <<>>)
    ELSE LET x == write_read_bytes(<<50, 81, port, 1, speed>>, reply)
             response == Context(x.res, <<"Set speed command failed">>)
         IN  IF ~response.ok THEN Done(response, x.io)
             ELSE Done(check_response_status(response.val, <<"Set speed">>), x.io)

\* the bytes of colors[start_idx..end_idx] in GRB order
RECURSIVE GrbBytes(_, _, _)
GrbBytes(colors, start_idx, end_idx) ==
    IF start_idx >= end_idx THEN <<>>
    ELSE to_grb_bytes(colors[start_idx + 1]) \o GrbBytes(colors, start_idx + 1, end_idx)

\* RiingTrioController::write_rgb_chunk: the slice colors[start_idx..end_idx]
\* panics when start_idx > end_idx, before anything is written
write_rgb_chunk(port, mode, chunk_id, colors, reply) ==
    LET start_idx == (chunk_id - 1) * MAX_COLORS_PER_CHUNK
        end_idx == Min(start_idx + MAX_COLORS_PER_CHUNK, Len(colors))
    IN  IF start_idx > end_idx THEN Panicked(<<>>)
        ELSE LET payload == <<50, 82, port, mode, 3, chunk_id, 0>>
                                \o GrbBytes(colors, start_idx, end_idx)
                 x == write_read_bytes(payload, reply)
             IN  Done(Context(x.res, <<"Failed to write RGB chunk ", ToString(chunk_id)>>), x.io)

\* RiingTrioController::set_rgb_colors, the loop from chunk_id on;
\* replies[chunk_id] is the device's behaviour for that chunk's exchange
RECURSIVE rgb_chunks(_, _, _, _)
rgb_chunks(port, colors, chunk_id, replies) ==
    IF chunk_id > RGB_CHUNK_COUNT THEN Done(Ok(<<>>), <<>>)
    ELSE LET c == write_rgb_chunk(port, MODE_PER_LED, chunk_id, colors, replies[chunk_id])
         IN  IF c.panic \/ ~c.res.ok THEN c
             ELSE LET st == check_response_status(c.res.val,
                                <<"RGB write chunk ", ToString(chunk_id), "/",
                                  ToString(RGB_CHUNK_COUNT)>>)
                  IN  IF ~st.ok THEN Done(st, c.io)
                      ELSE LET rest == rgb_chunks(port, colors, chunk_id + 1, replies)
                           IN  [res |-> rest.res, io |-> c.io \o rest.io, panic |-> rest.panic]

\* set_rgb_colors writing chunk 2 whatever chunk 1's status was (a mutation
\* of set_rgb_colors)
set_rgb_colors_no_abort(port, colors, replies) ==
    IF ~(port \in 1..5)
    THEN Done(Err(<<<<"Invalid port ", ToString(port), ". Must be 1-5">>>>), <<>>)
    ELSE LET c1 == write_rgb_chunk(port, MODE_PER_LED, 1, colors, replies[1])
         IN  IF c1.panic \/ ~c1.res.ok THEN c1
             ELSE LET c2 == write_rgb_chunk(port, MODE_PER_LED, 2, colors, replies[2])
                  IN  IF c2.panic \/ ~c2.res.ok
                      THEN [res |-> c2.res, io |-> c1.io \o c2.io, panic |-> c2.panic]
                      ELSE [res |-> check_response_status(c2.res.val,
                                        <<"RGB write chunk ", "2", "/", "2">>),
                            io |-> c1.io \o c2.io, panic |-> FALSE]

\* RiingTrioController::set_rgb_colors
set_rgb_colors(port, colors, replies) ==
    IF ~(port \in 1..5)
    THEN Done(Err(<<<<"Invalid port ", ToString(port), ". Must be 1-5">>>>), <<>>)
    ELSE rgb_chunks(port, colors, 1, replies)

\* RiingTrioController::set_rgb
set_rgb(port, color, led_count, replies) ==
    set_rgb_colors(port, Repeat(color, led_count), replies)

\* RiingTrioController::get_port_status
get_port_status(port, reply) ==
    IF ~(port \in 1..5)
    THEN Done(Err(<<<<"Invalid port ", ToString(port), ". Must be 1-5">>>>), <<>>)
    ELSE LET x == write_read_bytes(<<51, 81, port>>, reply)
             response == Context(x.res, <<"Get port status command failed">>)
         IN  IF ~response.ok THEN Done(response, x.io)
             ELSE LET r == response.val
                  IN  IF Len(r) > 2 /\ r[3] = 254
                      THEN Done(Err(<<<<"No device connected on port ", ToString(port)>>>>), x.io)
                      ELSE IF Len(r) < 7
                      THEN Done(Err(<<<<"Invalid response length: ", ToString(Len(r))>>>>), x.io)
                      ELSE Done(Ok([port_id |-> r[3], speed |-> r[5],
                                    rpm |-> r[7] * 256 + r[6]]), x.io)

(***************************************************************************)
(* Temperature-reactive engine                                             *)
(***************************************************************************)
SENSOR_READ_INTERVAL_SECS == 5
FALLBACK_BLINK_FRAMES == 30

\* contains with the upper bound included (a mutation of TempZone::contains)
contains_inclusive(z, temp) == temp >= z.min_temp /\ temp <= z.max_temp

\* TempZone::contains
contains(z, temp) == temp >= z.min_temp /\ temp < z.max_temp

\* zones.iter().position(|z| z.contains(temp)), as an Option of a Rust index
RECURSIVE position_from(_, _, _)
position_from(zones, temp, i) ==
    IF i > Len(zones) THEN None
    ELSE IF contains(zones[i], temp) THEN Some(i - 1)
    ELSE position_from(zones, temp, i + 1)

\* run_daemon: "Find which zone we're in"
select_zone(zones, temp) ==
    LET pos == position_from(zones, temp, 1)
    IN  IF IsSome(pos) THEN Unwrap(pos)
        ELSE IF temp < zones[1].min_temp THEN 0
        ELSE Len(zones) - 1

\* the first index in S, for a non-empty set of indices
First(S) == CHOOSE i \in S : \A j \in S : i <= j

\* validate_zones; the temperatures are shown in the messages as they are
\* held (tenths of a degree)
validate_zones(zones) ==
    IF Len(zones) = 0
    THEN Err(<<<<"TempReactive requires at least one zone">>>>)
    ELSE LET gaps == {i \in 1..(Len(zones) - 1) : zones[i].max_temp # zones[i + 1].min_temp}
         IN  IF gaps # {}
             THEN LET i == First(gaps)
                  IN  Err(<<<<"Zones must be contiguous: zone ", ToString(i - 1), " ends at ",
                              ToString(zones[i].max_temp), " but zone ", ToString(i),
                              " starts at ", ToString(zones[i + 1].min_temp)>>>>)
             ELSE Ok(<<>>)

\* a state built with an index before the first zone (a mutation of
\* NewTempReactiveState)
NewTempReactiveState_before_zones ==
    [current_zone_idx |-> -1,
     transition_start_frame |-> None,
     transition_from_colors |-> None,
     sensor_age |-> SENSOR_READ_INTERVAL_SECS,
     fallback_mode |-> FALSE,
     fallback_frame_start |-> None]

\* TempReactiveState as run_daemon creates it; sensor_age stands for
\* last_sensor_read.elapsed() in seconds, capped at the read interval (the
\* initial timestamp lies 10 s in the past: the first read is due at once)
NewTempReactiveState ==
    [current_zone_idx |-> 0,
     transition_start_frame |-> None,
     transition_from_colors |-> None,
     sensor_age |-> SENSOR_READ_INTERVAL_SECS,
     fallback_mode |-> FALSE,
     fallback_frame_start |-> None]

\* the fallback handling leaving fallback mode after rendering (a mutation of
\* tr_fallback)
tr_fallback_recovers(state, f, led_count, brightness) ==
    [state |-> [state EXCEPT !.fallback_mode = FALSE,
                             !.fallback_frame_start =
                                 IF IsSome(@) THEN @ ELSE Some(f)],
     colors |-> IF IsSome(state.fallback_frame_start)
                   /\ U32Below(saturating_sub(f, Unwrap(state.fallback_frame_start)),
                               FALLBACK_BLINK_FRAMES)
                THEN generate(Blink(MAGENTA, "Extreme"), f, led_count, brightness)
                ELSE Repeat(OFF, led_count)]

\* run_daemon, "Handle fallback mode": the new state and the colors to send
tr_fallback(state, f, led_count, brightness) ==
    IF IsSome(state.fallback_frame_start)
    THEN LET elapsed == saturating_sub(f, Unwrap(state.fallback_frame_start))
         IN  [state |-> state,
              colors |-> IF U32Below(elapsed, FALLBACK_BLINK_FRAMES)
                         THEN generate(Blink(MAGENTA, "Extreme"), f, led_count, brightness)
                         ELSE Repeat(OFF, led_count)]
    ELSE [state |-> [state EXCEPT !.fallback_frame_start = Some(f)],
          colors |-> Repeat(OFF, led_count)]

\* the Ok(temp) arm taking the snapshot after the zone index was switched, so
\* of the new zone's render (a mutation of tr_read_ok)
tr_read_ok_late_snapshot(cfg, state, temp, f, led_count, brightness) ==
    LET new_zone_idx == select_zone(cfg.zones, temp)
        read == [state EXCEPT !.sensor_age = 0]
    IN  IF new_zone_idx # state.current_zone_idx
        THEN IF cfg.transition_frames > 0
             THEN LET new_effect == cfg.zones[new_zone_idx + 1].effect
                      new_colors == generate(new_effect, f, led_count, brightness)
                  IN  [read EXCEPT !.transition_from_colors = Some(new_colors),
                                   !.transition_start_frame = Some(f),
                                   !.current_zone_idx = new_zone_idx]
             ELSE [read EXCEPT !.current_zone_idx = new_zone_idx]
        ELSE read

\* the Ok(temp) arm starting the transition but leaving current_zone_idx for
\* a later tick (a mutation of tr_read_ok)
tr_read_ok_keeps_zone(cfg, state, temp, f, led_count, brightness) ==
    LET new_zone_idx == select_zone(cfg.zones, temp)
        read == [state EXCEPT !.sensor_age = 0]
    IN  IF new_zone_idx # state.current_zone_idx /\ cfg.transition_frames > 0
        THEN [read EXCEPT !.transition_from_colors =
                              Some(generate(cfg.zones[state.current_zone_idx + 1].effect,
                                            f, led_count, brightness)),
                          !.transition_start_frame = Some(f)]
        ELSE read

\* the Ok(temp) arm without the comparison of new_zone_idx with
\* current_zone_idx: every read starts a transition (a mutation of tr_read_ok)
tr_read_ok_always_snapshots(cfg, state, temp, f, led_count, brightness) ==
    LET new_zone_idx == select_zone(cfg.zones, temp)
        read == [state EXCEPT !.sensor_age = 0]
    IN  IF cfg.transition_frames > 0
        THEN LET old_effect == cfg.zones[state.current_zone_idx + 1].effect
                 old_colors == generate(old_effect, f, led_count, brightness)
             IN  [read EXCEPT !.transition_from_colors = Some(old_colors),
                              !.transition_start_frame = Some(f),
                              !.current_zone_idx = new_zone_idx]
        ELSE [read EXCEPT !.current_zone_idx = new_zone_idx]

\* run_daemon, the Ok(temp) arm of the sensor read
tr_read_ok(cfg, state, temp, f, led_count, brightness) ==
    LET new_zone_idx == select_zone(cfg.zones, temp)
        read == [state EXCEPT !.sensor_age = 0]
    IN  IF new_zone_idx # state.current_zone_idx
        THEN IF cfg.transition_frames > 0
             THEN LET old_effect == cfg.zones[state.current_zone_idx + 1].effect
                      old_colors == generate(old_effect, f, led_count, brightness)
                  IN  [read EXCEPT !.transition_from_colors = Some(old_colors),
                                   !.transition_start_frame = Some(f),
                                   !.current_zone_idx = new_zone_idx]
             ELSE [read EXCEPT !.current_zone_idx = new_zone_idx]
        ELSE read

\* the Err(e) arm leaving the start frame to the fallback branch (a mutation
\* of tr_read_err)
tr_read_err_without_start(state, f) == [state EXCEPT !.fallback_mode = TRUE]

\* run_daemon, the Err(e) arm of the sensor read
tr_read_err(state, f) ==
    [state EXCEPT !.fallback_mode = TRUE, !.fallback_frame_start = Some(f)]

\* the end of a transition clearing the start frame and keeping the snapshot
\* (a mutation of tr_render)
tr_render_keeps_snapshot(cfg, state, f, led_count, brightness) ==
    LET target_colors == generate(cfg.zones[state.current_zone_idx + 1].effect, f,
                                  led_count, brightness)
    IN  IF IsSome(state.transition_start_frame)
           /\ ~U32Below(saturating_sub(f, Unwrap(state.transition_start_frame)),
                        cfg.transition_frames)
        THEN [state |-> [state EXCEPT !.transition_start_frame = None],
              colors |-> target_colors]
        ELSE [state |-> state, colors |-> target_colors]

\* run_daemon, "Generate colors for current zone" and "Apply transition if
\* in progress": the new state and the colors to send
tr_render(cfg, state, f, led_count, brightness) ==
    LET current_effect == cfg.zones[state.current_zone_idx + 1].effect
        target_colors == generate(current_effect, f, led_count, brightness)
    IN  IF IsSome(state.transition_start_frame) /\ IsSome(state.transition_from_colors)
        THEN LET elapsed_frames == saturating_sub(f, Unwrap(state.transition_start_frame))
             IN  IF U32Below(elapsed_frames, cfg.transition_frames)
                 THEN [state |-> state,
                       colors |-> interpolate_colors(
                                     Unwrap(state.transition_from_colors), target_colors,
                                     <<elapsed_frames.lo, cfg.transition_frames>>)]
                 ELSE [state |-> [state EXCEPT !.transition_start_frame = None,
                                               !.transition_from_colors = None],
                       colors |-> target_colors]
        ELSE [state |-> state, colors |-> target_colors]

(***************************************************************************)
(* Configuration: the entries as the file gives them (names in lower case, *)
(* a port key as the sequence of its characters, flow_colors as the        *)
(* trimmed pieces between its commas) and what run_daemon parses from them *)
(***************************************************************************)
\* char::to_digit(10), or -1 for a character that is no digit
DigitValue(ch) ==
    CASE ch = "0" -> 0 [] ch = "1" -> 1 [] ch = "2" -> 2 [] ch = "3" -> 3 [] ch = "4" -> 4
      [] ch = "5" -> 5 [] ch = "6" -> 6 [] ch = "7" -> 7 [] ch = "8" -> 8 [] ch = "9" -> 9
      [] OTHER -> 0 - 1

\* the value of a sequence of digits, or 256 as soon as it exceeds a u8
RECURSIVE DecimalU8(_, _)
DecimalU8(chars, acc) ==
    IF chars = <<>> THEN acc
    ELSE DecimalU8(Tail(chars), Min(acc * 10 + DigitValue(Head(chars)), 256))

\* port_str.parse::<u8>(): an optional '+', then one or more digits, at most 255
parse_u8(key) ==
    LET digits == IF key # <<>> /\ Head(key) = "+" THEN Tail(key) ELSE key
    IN  IF digits # <<>> /\ (\A i \in 1..Len(digits) : DigitValue(digits[i]) >= 0)
           /\ DecimalU8(digits, 0) <= 255
        THEN Ok(DecimalU8(digits, 0))
        ELSE Err(<<<<"invalid digit found in string">>>>)

\* .as_ref().and_then(|s| T::from_str(s)).unwrap_or(default)
ColorOr(name, default) ==
    UnwrapOr(IF IsSome(name) THEN Color_from_str(Unwrap(name)) ELSE None, default)
SpeedOr(name) ==
    UnwrapOr(IF IsSome(name) THEN EffectSpeed_from_str(Unwrap(name)) ELSE None, "Normal")

\* flow_colors.split(',').filter_map(|c| Color::from_str(c.trim())), or the
\* default list
FlowColors(flow_colors) ==
    IF IsSome(flow_colors)
    THEN LET known == SelectSeq(Unwrap(flow_colors), LAMBDA c : IsSome(Color_from_str(c)))
         IN  [i \in 1..Len(known) |-> Unwrap(Color_from_str(known[i]))]
    ELSE <<RED, GREEN, BLUE>>

\* parse_zone_effect
parse_zone_effect(zone_toml) ==
    LET speed == SpeedOr(zone_toml.effect_speed)
        name == zone_toml.effect
    IN  CASE name \in {"spectrum", "rainbow"} -> Ok(Spectrum(speed))
          [] name = "wave" -> Ok(Wave(ColorOr(zone_toml.color, BLUE), speed))
          [] name \in {"pulse", "breathing"} -> Ok(Pulse(ColorOr(zone_toml.color, WHITE), speed))
          [] name = "blink" -> Ok(Blink(ColorOr(zone_toml.color, WHITE), speed))
          [] name = "flow" -> Ok(Flow(FlowColors(zone_toml.flow_colors), speed))
          [] name = "ripple" -> Ok(Ripple(ColorOr(zone_toml.color, CYAN), speed))
          [] name = "static" -> Ok(Static(ColorOr(zone_toml.color, WHITE)))
          [] OTHER -> Err(<<<<"Unknown effect in zone: ", name>>>>)

\* parse_temp_reactive, the loop over toml_config.zones: zones holds the
\* zones pushed so far; the first error ends it
RECURSIVE parse_zones(_, _)
parse_zones(zone_tomls, zones) ==
    IF Len(zones) = Len(zone_tomls) THEN Ok(zones)
    ELSE LET zone_idx == Len(zones)
             zone_toml == zone_tomls[zone_idx + 1]
         IN  IF zone_toml.min_temp >= zone_toml.max_temp
             THEN Err(<<<<"Zone ", ToString(zone_idx), ": min_temp (", ToString(zone_toml.min_temp),
                         ") must be less than max_temp (", ToString(zone_toml.max_temp), ")">>>>)
             ELSE AndThen(parse_zone_effect(zone_toml),
                          LAMBDA effect :
                              parse_zones(zone_tomls,
                                          Append(zones, [min_temp |-> zone_toml.min_temp,
                                                         max_temp |-> zone_toml.max_temp,
                                                         effect |-> effect])))

\* parse_temp_reactive
parse_temp_reactive(toml_config) ==
    AndThen(parse_zones(toml_config.zones, <<>>),
            LAMBDA zones :
                AndThen(validate_zones(zones),
                        LAMBDA unit : Ok([sensor |-> toml_config.sensor, zones |-> zones,
                                          transition_frames |-> toml_config.transition_frames])))

\* parse_effect
parse_effect(port_config) ==
    IF IsSome(port_config.temp_reactive)
    THEN AndThen(parse_temp_reactive(Unwrap(port_config.temp_reactive)),
                 LAMBDA parsed : Ok(TempReactive(parsed)))
    ELSE IF IsSome(port_config.effect)
    THEN LET speed == SpeedOr(port_config.effect_speed)
             name == Unwrap(port_config.effect)
         IN  CASE name \in {"spectrum", "rainbow"} -> Ok(Spectrum(speed))
               [] name = "wave" -> Ok(Wave(ColorOr(port_config.color, BLUE), speed))
               [] name \in {"pulse", "breathing"} ->
                     Ok(Pulse(ColorOr(port_config.color, WHITE), speed))
               [] name = "blink" -> Ok(Blink(ColorOr(port_config.color, WHITE), speed))
               [] name = "flow" ->
                     IF FlowColors(port_config.flow_colors) = <<>>
                     THEN Err(<<<<"Flow effect requires at least one color">>>>)
                     ELSE Ok(Flow(FlowColors(port_config.flow_colors), speed))
               [] name = "ripple" -> Ok(Ripple(ColorOr(port_config.color, CYAN), speed))
               [] name = "static" -> Ok(Static(ColorOr(port_config.color, WHITE)))
               [] OTHER -> Err(<<<<"Unknown effect: ", name>>>>)
    ELSE IF IsSome(port_config.color)
    THEN IF IsSome(Color_from_str(Unwrap(port_config.color)))
         THEN Ok(Static(Unwrap(Color_from_str(Unwrap(port_config.color)))))
         ELSE Err(<<<<"Unknown color: ", Unwrap(port_config.color)>>>>)
    ELSE Err(<<<<"No effect or color specified">>>>)

(***************************************************************************)
(* Bounds and inputs                                                       *)
(***************************************************************************)
MaxTicks == 4           \* loop iterations followed from frame 0
WrapLead == 3           \* SpecWrap starts this many frames before the wrap
TransExp == 2           \* transition_frames is 0 or 2^TransExp
MaxTickSecs == 3        \* longest loop iteration followed, in seconds

Full == <<1, 1>>
HalfBright == <<1, 2>>

\* what the device does on one exchange
Replies ==
    {[kind |-> "write_err", bytes |-> <<>>],
     [kind |-> "read_err", bytes |-> <<>>],
     [kind |-> "timeout", bytes |-> <<>>],
     [kind |-> "data", bytes |-> <<50, 81, STATUS_SUCCESS>>],
     [kind |-> "data", bytes |-> <<50, 81, STATUS_FAILURE>>],
     [kind |-> "data", bytes |-> <<50, 81, 1>>]}

SuccessReply == [kind |-> "data", bytes |-> <<50, 81, STATUS_SUCCESS>>]
\* stands for the behaviour on an exchange that is never made
NoReply == [kind |-> "timeout", bytes |-> <<>>]

\* the device's behaviour on the exchanges of one set_rgb_colors call: the
\* second chunk's exchange is made only after the first chunk succeeded
RgbReplies ==
    {<<r1, NoReply>> : r1 \in Replies \ {SuccessReply}}
    \cup {<<SuccessReply, r2>> : r2 \in Replies}

\* the device's behaviours followed inside the daemon loop
LoopReplies ==
    {SuccessReply, NoReply, [kind |-> "data", bytes |-> <<50, 81, STATUS_FAILURE>>]}

LoopRgbReplies ==
    {<<r1, NoReply>> : r1 \in LoopReplies \ {SuccessReply}}
    \cup {<<SuccessReply, r2>> : r2 \in LoopReplies}

\* replies to a status query: <<0x33, 0x51, port id, _, speed, rpm low, rpm high>>
StatusReplies ==
    Replies \cup
    {[kind |-> "data", bytes |-> <<51, 81, 2, 0, 80, 220, 5>>],
     [kind |-> "data", bytes |-> <<51, 81, 2, 0, 100, 255, 255>>],
     [kind |-> "data", bytes |-> <<51, 81, STATUS_FAILURE, 0, 80, 220, 5>>]}

\* what read_sensor_temp returns: an error or a temperature (tenths of a degree)
Temps == {100, 200, 499, 500, 999, 1000}
Readings == {[ok |-> FALSE, temp |-> 0]} \cup {[ok |-> TRUE, temp |-> t] : t \in Temps}
\* stands for the reading on a tick at which the sensor is not queried
NoReading == [ok |-> FALSE, temp |-> 0]

\* one entry of config.ports after parse_effect; effect is None when
\* parse_effect failed
PortEntry(port, speed, effect, brightness, led_count, reapply_speed) ==
    [port |-> port, speed |-> speed, effect |-> effect, brightness |-> brightness,
     led_count |-> led_count, reapply_speed |-> reapply_speed]

DaemonConfig(ports, speed_once) ==
    [ports |-> ports, speed_once_at_startup |-> speed_once, raw |-> <<>>]

\* one [ports.<key>] table of the file
PortConfig(key, speed, color, effect, effect_speed, flow_colors, brightness, led_count, reapply_speed, temp_reactive) ==
    [key |-> key, speed |-> speed, color |-> color, effect |-> effect,
     effect_speed |-> effect_speed, flow_colors |-> flow_colors, brightness |-> brightness,
     led_count |-> led_count, reapply_speed |-> reapply_speed,
     temp_reactive |-> temp_reactive]

\* one [[ports.<key>.temp_reactive.zones]] table of the file
ZoneToml(min_temp, max_temp, effect, color, effect_speed, flow_colors) ==
    [min_temp |-> min_temp, max_temp |-> max_temp, effect |-> effect, color |-> color,
     effect_speed |-> effect_speed, flow_colors |-> flow_colors]

ZonesToml ==
    <<ZoneToml(200, 500, "blink", Some("red"), Some("extreme"), None),
      ZoneToml(500, 800, "static", Some("blue"), None, None),
      ZoneToml(800, 1000, "blink", Some("green"), Some("fast"), None)>>

\* zones 0 and 1 leave a gap
GapZonesToml ==
    <<ZoneToml(200, 500, "static", Some("red"), None, None),
      ZoneToml(600, 800, "static", Some("blue"), None, None)>>

TempReactiveToml(zones, transition_frames) ==
    [sensor |-> "CPU", zones |-> zones, transition_frames |-> transition_frames]

\* the ports of the file whose key is a port number, each with what
\* parse_effect makes of it, in the order run_daemon visits them (the keys
\* of the configurations below name different ports)
Load(ports, speed_once) ==
    LET numbered == SelectSeq(ports, LAMBDA pcfg : parse_u8(pcfg.key).ok)
    IN  [ports |-> [i \in 1..Len(numbered) |->
                      PortEntry(parse_u8(numbered[i].key).val, numbered[i].speed,
                                OkOf(parse_effect(numbered[i])),
                                numbered[i].brightness, numbered[i].led_count,
                                numbered[i].reapply_speed)],
         speed_once_at_startup |-> speed_once,
         raw |-> ports]

\* the configuration files followed
ConfigFiles ==
    {[ports |-> <<PortConfig(<<"1">>, Some(50), None, None, None, None, HalfBright, 20, FALSE,
                       Some(TempReactiveToml(ZonesToml, 2 ^ TransExp)))>>, speed_once |-> TRUE],
     [ports |-> <<PortConfig(<<"3">>, Some(80), Some("white"), None, None, None, Full, 19, TRUE, None),
            PortConfig(<<"1">>, Some(40), None, None, None, None, Full, 19, FALSE,
                       Some(TempReactiveToml(ZonesToml, 0)))>>, speed_once |-> TRUE],
     [ports |-> <<PortConfig(<<"2">>, None, Some("white"), Some("blink"), Some("extreme"), None,
                       Full, 3, FALSE, None),
            PortConfig(<<"4">>, Some(30), None, None, None, None, Full, 30, FALSE, None)>>, speed_once |-> FALSE],
     [ports |-> <<PortConfig(<<"6">>, Some(101), Some("red"), None, None, None, HalfBright, 20,
                       FALSE, None),
            PortConfig(<<"5">>, Some(101), Some("green"), None, None, None, Full, 20, FALSE,
                       None)>>, speed_once |-> FALSE],
     [ports |-> <<PortConfig(<<"2">>, Some(60), Some("green"), None, None, None, Full, 19, FALSE,
                       None)>>, speed_once |-> TRUE],
     [ports |-> <<PortConfig(<<"+", "3">>, Some(20), Some("blue"), Some("static"), None, None, Full,
                       19, FALSE, None),
            PortConfig(<<"a">>, Some(70), Some("red"), None, None, None, Full, 19, FALSE,
                       None)>>, speed_once |-> TRUE],
     [ports |-> <<PortConfig(<<"1">>, None, Some("teal"), None, None, None, Full, 19, FALSE, None),
            PortConfig(<<"5">>, Some(20), None, Some("flow"), None, Some(<<"teal">>), Full,
                       19, FALSE, None),
            PortConfig(<<"2">>, None, None, None, None, None, Full, 19, FALSE,
                       Some(TempReactiveToml(GapZonesToml, 0))),
            PortConfig(<<"4">>, None, Some("red"), Some("sparkle"), None, None, Full, 19,
                       FALSE, None),
            PortConfig(<<"3">>, None, Some("sky"), None, None, None, Full, 19, FALSE,
                       None)>>, speed_once |-> TRUE],
     [ports |-> <<PortConfig(<<"2">>, None, Some("red"), None, None, None, Full, 3, FALSE, None),
            PortConfig(<<"3">>, None, Some("lime"), None, None, None, Full, 19, FALSE,
                       None)>>, speed_once |-> TRUE],
     [ports |-> <<PortConfig(<<"4">>, Some(45), None, None, None, None, Full, 19, FALSE,
                       Some(TempReactiveToml(ZonesToml, 0)))>>, speed_once |-> FALSE]}

Configs == {Load(file.ports, file.speed_once) : file \in ConfigFiles}

NoConfig == DaemonConfig(<<>>, TRUE)

Commands ==
    {[command |-> "Daemon", port |-> None, speed |-> 0, led_count |-> 0, interval |-> 5]}
    \cup {[command |-> c, port |-> Some(p), speed |-> 0, led_count |-> n, interval |-> 0] :
            c \in {"Off", "White"}, p \in {1, 6}, n \in {0, 3, 30, 40}}
    \cup {[command |-> "Speed", port |-> Some(p), speed |-> s, led_count |-> 0, interval |-> 0] :
            p \in {0, 3, 6}, s \in {0, 80, 100, 101}}
    \cup {[command |-> "Status", port |-> o, speed |-> 0, led_count |-> 0, interval |-> 0] :
            o \in {None, Some(2), Some(6)}}

(***************************************************************************)
(* run_daemon: what it derives from the configuration before the loop      *)
(***************************************************************************)
IsTemp(e) == IsSome(e.effect) /\ Unwrap(e.effect).kind = "TempReactive"

\* temp_reactive_ports, in iteration order
TempPortsOf(c) == SelectSeq(c.ports, IsTemp)
TempPorts == TempPortsOf(config)

\* temp_reactive_ports.contains_key(&port)
IsTempPort(port) == \E i \in 1..Len(TempPorts) : TempPorts[i].port = port

has_animated_effects ==
    \E i \in 1..Len(config.ports) :
        /\ IsSome(config.ports[i].effect)
        /\ Unwrap(config.ports[i].effect).kind # "Static"

(***************************************************************************)
(* History records                                                         *)
(***************************************************************************)
\* one call of a protocol operation: its arguments, result and exchanges
Call(fn, port, speed, colors, r) ==
    [fn |-> fn, port |-> port, speed |-> speed, colors |-> colors,
     res |-> r.res, io |-> r.io, panic |-> r.panic]

NoLast ==
    [step |-> "none", port |-> 0, frame |-> U32Zero, calls |-> <<>>,
     sensor |-> "none", temp |-> 0, was_fallback |-> FALSE, log |-> <<>>,
     sweep |-> <<>>]

\* sweep is the record of the current iteration: which of the two port loops
\* ("normal" or "temp") came to which port, and how many set_rgb_colors and
\* set_speed calls it made there
Step(step, port, f, calls) ==
    [NoLast EXCEPT !.step = step, !.port = port, !.frame = f, !.calls = calls,
                   !.sweep = IF step \in {"normal", "temp"}
                             THEN Append(last.sweep,
                                         [path |-> step, port |-> port,
                                          rgb |-> Len(SelectSeq(calls,
                                                LAMBDA c : c.fn = "set_rgb_colors")),
                                          speed |-> Len(SelectSeq(calls,
                                                LAMBDA c : c.fn = "set_speed"))])
                             ELSE <<>>]

NoHist == [switched |-> FALSE, from_zone |-> 0, at |-> U32Zero, ticks |-> 0,
           fb_ticks |-> 0, queried |-> FALSE, query_age |-> 0]

AnyPanic(calls) == \E i \in 1..Len(calls) : calls[i].panic

\* the entries of setup for the calls of one step: which operation, on which
\* port, whether it returned Ok and whether it exchanged a report
Logged(calls) ==
    [j \in 1..Len(calls) |->
        [fn |-> calls[j].fn, port |-> calls[j].port,
         ok |-> calls[j].res.ok /\ ~calls[j].panic,
         exchanged |-> calls[j].io # <<>>]]

(***************************************************************************)
(* Positions of the program                                                *)
(***************************************************************************)
\* where the loop body starts: the sweep over config.ports, then the sweep
\* over temp_reactive_ports, then the end of the iteration
LoopEntry ==
    IF Len(config.ports) > 0 THEN <<"normal", 1>>
    ELSE IF Len(TempPorts) > 0 THEN <<"temp", 1>>
    ELSE <<"end_frame", 1>>

AfterNormal(i) ==
    IF i < Len(config.ports) THEN <<"normal", i + 1>>
    ELSE IF Len(TempPorts) > 0 THEN <<"temp", 1>>
    ELSE <<"end_frame", 1>>

AfterTemp(i) == IF i < Len(TempPorts) THEN <<"temp", i + 1>> ELSE <<"end_frame", 1>>

AfterStartup(i) ==
    IF i < Len(config.ports) THEN <<"startup_speeds", i + 1>> ELSE LoopEntry

AfterInit ==
    IF cli.command = "Daemon"
    THEN IF config.speed_once_at_startup /\ Len(config.ports) > 0
         THEN <<"startup_speeds", 1>> ELSE LoopEntry
    ELSE <<"command", 1>>

(***************************************************************************)
(* Initial state: the command line is parsed and, for the daemon, the      *)
(* configuration is loaded and the per-port state is built                 *)
(***************************************************************************)
Init ==
    /\ cli \in Commands
    /\ config \in (IF cli.command = "Daemon" THEN Configs ELSE {NoConfig})
    /\ pc = (IF cli.command = "Daemon" THEN "parse" ELSE "open")
    /\ idx = 1
    /\ frame = U32Zero
    /\ speed_age = 0
    /\ tr = <<>>
    /\ hist = <<>>
    /\ last = NoLast
    /\ call = None
    /\ setup = <<>>

(***************************************************************************)
(* run_daemon: the loop over config.ports that parses each key and effect   *)
(* and builds the state of the temperature-reactive ports                  *)
(***************************************************************************)
\* the name run_daemon prints for a parsed effect
effect_name(e) ==
    CASE e.kind = "Static" -> "static"
      [] e.kind = "Spectrum" -> "spectrum"
      [] e.kind = "Wave" -> "wave"
      [] e.kind = "Pulse" -> "pulse"
      [] e.kind = "Blink" -> "blink"
      [] e.kind = "Flow" -> "flow"
      [] e.kind = "Ripple" -> "ripple"
      [] e.kind = "TempReactive" -> "temp-reactive"

\* what the loop prints for the entries it reaches: the effect name or the
\* error of parse_effect, and the error it returns on a key that is no u8
ParseLog(ports) ==
    LET bad == {i \in 1..Len(ports) : ~parse_u8(ports[i].key).ok}
        reached == IF bad = {} THEN Len(ports) ELSE First(bad) - 1
    IN  [i \in 1..reached |->
            [key |-> ports[i].key,
             res |-> AndThen(parse_effect(ports[i]), LAMBDA effect : Ok(effect_name(effect)))]]
        \o (IF bad = {} THEN <<>>
            ELSE <<[key |-> ports[First(bad)].key,
                    res |-> Context(parse_u8(ports[First(bad)].key),
                                    <<"Invalid port number: ">> \o ports[First(bad)].key)]>>)

ParsePorts ==
    /\ pc = "parse"
    /\ LET failed == \E i \in 1..Len(config.raw) : ~parse_u8(config.raw[i].key).ok
       IN  /\ last' = [Step("parse", 0, frame, <<>>) EXCEPT !.log = ParseLog(config.raw)]
           /\ pc' = IF failed THEN "failed" ELSE "open"
           /\ tr' = IF failed THEN tr ELSE [i \in 1..Len(TempPorts) |-> NewTempReactiveState]
           /\ hist' = IF failed THEN hist ELSE [i \in 1..Len(TempPorts) |-> NoHist]
    /\ UNCHANGED <<cli, config, idx, frame, speed_age, call, setup>>

(***************************************************************************)
(* RiingTrioController::open, then init()                                  *)
(***************************************************************************)
Open ==
    /\ pc = "open"
    /\ \E opened \in BOOLEAN :
        /\ pc' = IF opened THEN "init" ELSE "failed"
        /\ last' = Step("open", 0, frame, <<>>)
    /\ UNCHANGED <<cli, config, idx, frame, speed_age, tr, hist, call, setup>>

\* init() whose result is ignored (a mutation of DoInit)
DoInit_ignores_result ==
    /\ pc = "init"
    /\ \E reply \in Replies :
        LET r == init(reply)
        IN  /\ last' = Step("init", 0, frame, <<Call("init", 0, 0, <<>>, r)>>)
            /\ pc' = AfterInit[1]
            /\ idx' = AfterInit[2]
    /\ setup' = setup \o Logged(last'.calls)
    /\ UNCHANGED <<cli, config, frame, speed_age, tr, hist, call>>

DoInit ==
    /\ pc = "init"
    /\ \E reply \in Replies :
        LET r == init(reply)
        IN  /\ last' = Step("init", 0, frame, <<Call("init", 0, 0, <<>>, r)>>)
            /\ pc' = IF r.res.ok THEN AfterInit[1] ELSE "failed"
            /\ idx' = IF r.res.ok THEN AfterInit[2] ELSE idx
    /\ setup' = setup \o Logged(last'.calls)
    /\ UNCHANGED <<cli, config, frame, speed_age, tr, hist, call>>

\* the startup sweep leaving out the temperature-reactive ports, as the sweep
\* of the loop does (a mutation of StartupSpeed)
StartupSpeed_skips_temp ==
    /\ pc = "startup_speeds"
    /\ LET e == config.ports[idx]
       IN  \E reply \in Replies :
            LET calls == IF IsSome(e.speed) /\ ~IsTempPort(e.port)
                         THEN <<Call("set_speed", e.port, Unwrap(e.speed), <<>>,
                                     set_speed(e.port, Unwrap(e.speed), reply))>>
                         ELSE <<>>
            IN  last' = Step("startup_speed", e.port, frame, calls)
    /\ pc' = AfterStartup(idx)[1]
    /\ idx' = AfterStartup(idx)[2]
    /\ setup' = setup \o Logged(last'.calls)
    /\ UNCHANGED <<cli, config, frame, speed_age, tr, hist, call>>

\* run_daemon: "Apply speed settings once at startup if configured"
StartupSpeed ==
    /\ pc = "startup_speeds"
    /\ LET e == config.ports[idx]
       IN  \E reply \in Replies :
            LET calls == IF IsSome(e.speed)
                         THEN <<Call("set_speed", e.port, Unwrap(e.speed), <<>>,
                                     set_speed(e.port, Unwrap(e.speed), reply))>>
                         ELSE <<>>
            IN  last' = Step("startup_speed", e.port, frame, calls)
    /\ pc' = AfterStartup(idx)[1]
    /\ idx' = AfterStartup(idx)[2]
    /\ setup' = setup \o Logged(last'.calls)
    /\ UNCHANGED <<cli, config, frame, speed_age, tr, hist, call>>

(***************************************************************************)
(* run_daemon: the loop                                                    *)
(***************************************************************************)
STATUS_FRAMES == 150

\* the speed condition without the 150-frame cadence (a mutation of
\* applies_speed)
applies_speed_every_frame(e, f, age) ==
    /\ IsSome(e.speed)
    /\ (~config.speed_once_at_startup \/ e.reapply_speed \/ age >= cli.interval)

\* the body of "Process normal ports" for one entry of config.ports: the
\* calls it makes, in order
applies_speed(e, f, age) ==
    LET should_apply_speed ==
            \/ ~config.speed_once_at_startup
            \/ e.reapply_speed
            \/ age >= cli.interval
    IN  /\ IsSome(e.speed)
        /\ should_apply_speed
        /\ (~has_animated_effects \/ U32Mod(f, STATUS_FRAMES) = 0)

\* a normal-port loop without the skip of temperature-reactive ports
normal_port_renders_temp(e, f, age, reply, replies) ==
    IF IsSome(e.effect)
    THEN LET colors == generate(Unwrap(e.effect), f, e.led_count, e.brightness)
         IN  <<Call("set_rgb_colors", e.port, 0, colors,
                    set_rgb_colors(e.port, colors, replies))>>
    ELSE <<>>

normal_port(e, f, age, reply, replies) ==
    IF IsTempPort(e.port) THEN <<>>
    ELSE
        LET speed_calls ==
                IF applies_speed(e, f, age)
                THEN <<Call("set_speed", e.port, Unwrap(e.speed), <<>>,
                            set_speed(e.port, Unwrap(e.speed), reply))>>
                ELSE <<>>
            rgb_calls ==
                IF IsSome(e.effect)
                THEN LET colors == generate(Unwrap(e.effect), f, e.led_count, e.brightness)
                     IN  <<Call("set_rgb_colors", e.port, 0, colors,
                                set_rgb_colors(e.port, colors, replies))>>
                ELSE <<>>
        IN  speed_calls \o rgb_calls

NormalPortStep ==
    /\ pc = "normal"
    /\ \E reply \in (IF applies_speed(config.ports[idx], frame, speed_age)
                     THEN LoopReplies ELSE {NoReply}),
          replies \in (IF IsSome(config.ports[idx].effect)
                       THEN LoopRgbReplies ELSE {<<NoReply, NoReply>>}) :
        LET e == config.ports[idx]
            calls == normal_port(e, frame, speed_age, reply, replies)
        IN  /\ last' = Step("normal", e.port, frame, calls)
            /\ pc' = IF AnyPanic(calls) THEN "panic" ELSE AfterNormal(idx)[1]
            /\ idx' = IF AnyPanic(calls) THEN idx ELSE AfterNormal(idx)[2]
    /\ UNCHANGED <<cli, config, frame, speed_age, tr, hist, call, setup>>

\* a sensor read on every tick outside fallback (a mutation of sensor_due)
sensor_due_every_tick(state) == ~state.fallback_mode

\* "Check if we need to read sensor", for a port outside fallback
sensor_due(state) ==
    ~state.fallback_mode /\ state.sensor_age >= SENSOR_READ_INTERVAL_SECS

\* the body of "Process temp-reactive ports" for one port: the new state, the
\* colors passed to set_rgb_colors (None when the iteration is left without
\* a call) and what the sensor read returned

temp_port(e, state, f, reading) ==
    LET cfg == Unwrap(e.effect).config
    IN  IF state.fallback_mode
        THEN LET fb == tr_fallback(state, f, e.led_count, e.brightness)
             IN  [state |-> fb.state, colors |-> Some(fb.colors), sensor |-> "none"]
        ELSE IF sensor_due(state) /\ ~reading.ok
        THEN [state |-> tr_read_err(state, f), colors |-> None, sensor |-> "fail"]
        ELSE LET due == sensor_due(state)
                 read == IF due
                         THEN tr_read_ok(cfg, state, reading.temp, f, e.led_count, e.brightness)
                         ELSE state
                 out == tr_render(cfg, read, f, e.led_count, e.brightness)
             IN  [state |-> out.state, colors |-> Some(out.colors),
                  sensor |-> IF due THEN "ok" ELSE "none"]

TempPortStep ==
    /\ pc = "temp"
    /\ \E reading \in (IF sensor_due(tr[idx]) THEN Readings ELSE {NoReading}),
          replies \in LoopRgbReplies :
        LET e == TempPorts[idx]
            t == temp_port(e, tr[idx], frame, reading)
            calls == IF IsSome(t.colors)
                     THEN <<Call("set_rgb_colors", e.port, 0, Unwrap(t.colors),
                                 set_rgb_colors(e.port, Unwrap(t.colors), replies))>>
                     ELSE <<>>
            switched == t.sensor = "ok"
                        /\ t.state.current_zone_idx # tr[idx].current_zone_idx
        IN  /\ tr' = [tr EXCEPT ![idx] = t.state]
            /\ last' = [Step("temp", e.port, frame, calls) EXCEPT
                           !.sensor = t.sensor,
                           !.temp = IF t.sensor = "ok" THEN reading.temp ELSE 0,
                           !.was_fallback = tr[idx].fallback_mode]
            /\ hist' = [hist EXCEPT ![idx] =
                           IF switched
                           THEN [@ EXCEPT !.switched = TRUE,
                                          !.from_zone = tr[idx].current_zone_idx,
                                          !.at = frame, !.ticks = 0,
                                          !.queried = TRUE, !.query_age = 0]
                           ELSE IF t.sensor = "fail"
                           THEN [@ EXCEPT !.fb_ticks = 0, !.queried = TRUE,
                                          !.query_age = 0]
                           ELSE IF t.sensor = "ok"
                           THEN [@ EXCEPT !.queried = TRUE, !.query_age = 0]
                           ELSE @]
            /\ pc' = IF AnyPanic(calls) THEN "panic" ELSE AfterTemp(idx)[1]
            /\ idx' = IF AnyPanic(calls) THEN idx ELSE AfterTemp(idx)[2]
    /\ UNCHANGED <<cli, config, frame, speed_age, call, setup>>

\* how long one loop iteration may take, in seconds: the sleep fills it up to
\* frame_duration (33 ms with animations, else the interval; the time since
\* last_speed_apply, taken inside the iteration, may then stay just below it)
TickSecs ==
    IF has_animated_effects THEN {0, MaxTickSecs}
    ELSE {cli.interval - 1, cli.interval - 1 + MaxTickSecs}

\* the iterations followed: MaxTicks from frame 0, and the frames before
\* the counter wraps
FrameCap == U32Below(frame, MaxTicks) \/ frame.hi = HALF - 1

\* run_daemon: the end of one loop iteration (last_speed_apply, the frame
\* counter, the sleep)
EndFrame ==
    /\ pc = "end_frame"
    /\ FrameCap
    /\ \E d \in TickSecs :
        /\ speed_age' = IF U32Mod(frame, STATUS_FRAMES) = 0
                        THEN Min(d, cli.interval)
                        ELSE Min(speed_age + d, cli.interval)
        /\ tr' = [i \in DOMAIN tr |->
                    [tr[i] EXCEPT !.sensor_age = Min(@ + d, SENSOR_READ_INTERVAL_SECS)]]
        /\ hist' = [i \in DOMAIN hist |->
                       [hist[i] EXCEPT !.ticks = @ + 1, !.fb_ticks = @ + 1,
                                       !.query_age = IF hist[i].queried
                                                     THEN Min(@ + d, SENSOR_READ_INTERVAL_SECS)
                                                     ELSE @]]
    /\ frame' = wrapping_add_1(frame)
    /\ last' = Step("end_frame", 0, frame, <<>>)
    /\ pc' = LoopEntry[1]
    /\ idx' = LoopEntry[2]
    /\ UNCHANGED <<cli, config, call, setup>>

(***************************************************************************)
(* run_single_command                                                      *)
(***************************************************************************)
\* where a command that returned r leaves the program: `?` ends it with the
\* error
AfterCommand(r) == IF r.panic THEN "panic" ELSE IF r.res.ok THEN "done" ELSE "failed"

\* Commands::Off and Commands::White
CmdSetRgb ==
    /\ pc = "command"
    /\ cli.command \in {"Off", "White"}
    /\ \E replies \in RgbReplies :
        LET color == IF cli.command = "Off" THEN OFF ELSE WHITE
            port == Unwrap(cli.port)
            r == set_rgb(port, color, cli.led_count, replies)
        IN  /\ last' = Step("command", port, frame,
                            <<Call("set_rgb_colors", port, 0, Repeat(color, cli.led_count), r)>>)
            /\ pc' = AfterCommand(r)
    /\ setup' = setup \o Logged(last'.calls)
    /\ UNCHANGED <<cli, config, idx, frame, speed_age, tr, hist, call>>

\* Commands::Speed
CmdSpeed ==
    /\ pc = "command"
    /\ cli.command = "Speed"
    /\ \E reply \in Replies :
        LET port == Unwrap(cli.port)
            r == set_speed(port, cli.speed, reply)
        IN  /\ last' = Step("command", port, frame,
                            <<Call("set_speed", port, cli.speed, <<>>, r)>>)
            /\ pc' = AfterCommand(r)
    /\ setup' = setup \o Logged(last'.calls)
    /\ UNCHANGED <<cli, config, idx, frame, speed_age, tr, hist, call>>

\* Commands::Status: one port, or the ports 1..=5 one after the other; an
\* error of get_port_status is printed and the command goes on
CmdStatus ==
    /\ pc = "command"
    /\ cli.command = "Status"
    /\ \E reply \in StatusReplies :
        LET port == IF IsSome(cli.port) THEN Unwrap(cli.port) ELSE idx
            r == get_port_status(port, reply)
        IN  last' = Step("command", port, frame,
                         <<Call("get_port_status", port, 0, <<>>, r)>>)
    /\ pc' = IF IsSome(cli.port) \/ idx >= 5 THEN "done" ELSE "command"
    /\ idx' = IF IsSome(cli.port) \/ idx >= 5 THEN idx ELSE idx + 1
    /\ setup' = setup \o Logged(last'.calls)
    /\ UNCHANGED <<cli, config, frame, speed_age, tr, hist, call>>

Next ==
    \/ ParsePorts
    \/ Open
    \/ DoInit
    \/ StartupSpeed
    \/ NormalPortStep
    \/ TempPortStep
    \/ EndFrame
    \/ CmdSetRgb
    \/ CmdSpeed
    \/ CmdStatus

Spec == Init /\ [][Next]_vars

(***************************************************************************)
(* The daemon close to the wrap of the frame counter: the loop after       *)
(* 2^32 - WrapLead iterations.  Each temperature port is either as it is   *)
(* after reads that always selected zone 0, or in fallback since the read  *)
(* of FALLBACK_BLINK_FRAMES - 1 frames ago failed.                         *)
(***************************************************************************)
WrapStart == U32(HALF - 1, HALF - WrapLead)
LateFallbackEntry == U32(HALF - 1, HALF - WrapLead - (FALLBACK_BLINK_FRAMES - 1))

LateTempStates ==
    {[NewTempReactiveState EXCEPT !.sensor_age = a] : a \in {0, SENSOR_READ_INTERVAL_SECS}}
    \cup {[NewTempReactiveState EXCEPT !.fallback_mode = TRUE,
                                       !.fallback_frame_start = Some(LateFallbackEntry)]}

LateHist(state) ==
    IF state.fallback_mode
    THEN [NoHist EXCEPT !.fb_ticks = FALLBACK_BLINK_FRAMES - 1]
    ELSE NoHist

\* the calls before the loop of a run in which every one of them succeeded
LateSetup(c) ==
    LET speeds == SelectSeq(c.ports, LAMBDA e : IsSome(e.speed))
    IN  <<[fn |-> "init", port |-> 0, ok |-> TRUE, exchanged |-> TRUE]>>
        \o (IF c.speed_once_at_startup
            THEN [j \in 1..Len(speeds) |->
                    [fn |-> "set_speed", port |-> speeds[j].port, ok |-> TRUE,
                     exchanged |-> TRUE]]
            ELSE <<>>)

InitWrap ==
    /\ cli \in {c \in Commands : c.command = "Daemon"}
    /\ config \in {c \in Configs : Len(TempPortsOf(c)) > 0}
    /\ frame = WrapStart
    /\ pc = (IF Len(config.ports) > 0 THEN "normal" ELSE "temp")
    /\ idx = 1
    /\ speed_age \in {0, cli.interval}
    /\ tr \in [1..Len(TempPortsOf(config)) -> LateTempStates]
    /\ hist = [i \in 1..Len(TempPortsOf(config)) |-> LateHist(tr[i])]
    /\ last = NoLast
    /\ call = None
    /\ setup = LateSetup(config)

NextLoop ==
    \/ NormalPortStep
    \/ TempPortStep
    \/ EndFrame

SpecWrap == InitWrap /\ [][NextLoop]_vars

(***************************************************************************)
(* check_response_status applied to arbitrary responses                    *)
(***************************************************************************)
MaxRespLen == 4

StatusBytes == {0, 1, STATUS_SUCCESS, STATUS_FAILURE, 255}

RECURSIVE SeqsUpTo(_, _)
SeqsUpTo(S, n) ==
    IF n = 0 THEN {<<>>}
    ELSE LET shorter == SeqsUpTo(S, n - 1)
         IN  shorter \cup {Append(q, x) : q \in {r \in shorter : Len(r) = n - 1}, x \in S}

Operations == {<<"Init">>, <<"Set speed">>, <<"RGB write chunk ", "1", "/", "2">>}

InitPure ==
    /\ cli \in {c \in Commands : c.command = "Daemon"}
    /\ config = NoConfig
    /\ pc = "pure"
    /\ idx = 1
    /\ frame = U32Zero
    /\ speed_age = 0
    /\ tr = <<>>
    /\ hist = <<>>
    /\ last = NoLast
    /\ call = None
    /\ setup = <<>>

ApplyCheckResponseStatus ==
    /\ pc = "pure"
    /\ call = None
    /\ \E response \in SeqsUpTo(StatusBytes, MaxRespLen), operation \in Operations :
        call' = Some([fn |-> "check_response_status", response |-> response,
                      operation |-> operation,
                      res |-> check_response_status(response, operation)])
    /\ UNCHANGED <<cli, config, pc, idx, frame, speed_age, tr, hist, last, setup>>

SpecStatus == InitPure /\ [][ApplyCheckResponseStatus]_vars

(***************************************************************************)
(* Properties                                                              *)
(***************************************************************************)
InLoop == pc \in {"normal", "temp", "end_frame"}
LoopStep == last.step \in {"normal", "temp", "end_frame"}

\* the index in temp_reactive_ports of a temperature port
TempIdx(port) == CHOOSE i \in 1..Len(TempPorts) : TempPorts[i].port = port

\* the colors of the only call of the last step
Sent == last.calls[1].colors

\* the status byte of the report a read returned (the buffer is zero-filled)
StatusOf(reply) == IF Len(reply.bytes) > STATUS_BYTE_INDEX
                   THEN reply.bytes[STATUS_BYTE_INDEX + 1] ELSE 0
Succeeds(reply) == reply.kind = "data" /\ StatusOf(reply) = STATUS_SUCCESS

\* C1: once the daemon loop has been entered, no outcome of a set_speed call,
\* a set_rgb_colors call or a sensor read stops the daemon: after every step
\* of the loop the program is still inside the loop.
C1_DaemonNeverStops == LoopStep => InLoop

\* C2: on the tick at which the sensor read of a temperature port fails, the
\* port enters fallback mode and the fallback sequence (the magenta blink of
\* that frame) is sent to the device for that port on that same tick.
C2_FailureTickSendsFallback ==
    (last.step = "temp" /\ last.sensor = "fail") =>
        LET i == TempIdx(last.port)
            e == TempPorts[i]
        IN  /\ tr[i].fallback_mode
            /\ Len(last.calls) = 1
            /\ last.calls[1].fn = "set_rgb_colors"
            /\ Sent = generate(Blink(MAGENTA, "Extreme"), last.frame, e.led_count, e.brightness)

\* C3: while a port is in fallback mode, a tick fewer than 30 frames after the
\* entry frame sends the Blink(magenta, Extreme) render of that frame and a
\* tick 30 or more frames after entry sends all-off, whatever the zones, the
\* zone index, the transition state and the sensor.
C3_FallbackSequence ==
    (last.step = "temp" /\ last.was_fallback) =>
        LET i == TempIdx(last.port)
            e == TempPorts[i]
        IN  /\ Len(last.calls) = 1
            /\ Sent = IF hist[i].fb_ticks < FALLBACK_BLINK_FRAMES
                      THEN generate(Blink(MAGENTA, "Extreme"), last.frame,
                                    e.led_count, e.brightness)
                      ELSE Repeat(OFF, e.led_count)

\* C4: fallback is absorbing: once fallback_mode is set for a port it stays
\* set on every later tick, and a tick of a port in fallback never queries the
\* temperature source.
C4_FallbackAbsorbing ==
    [][\A i \in DOMAIN tr :
          tr[i].fallback_mode =>
              /\ tr'[i].fallback_mode
              /\ (pc = "temp" /\ idx = i) => last'.sensor = "none"]_vars

C4_Witness ==
    /\ last.step = "temp"
    /\ last.was_fallback
    /\ tr[TempIdx(last.port)].fallback_mode
    /\ frame # U32Zero

\* the zones [0,50), [50,100) of the example, in tenths of a degree
ExampleZones ==
    <<[min_temp |-> 0, max_temp |-> 500, effect |-> Static(RED)],
      [min_temp |-> 500, max_temp |-> 1000, effect |-> Static(BLUE)]>>

\* C5: on a successful sensor read the zone selected is the unique zone z with
\* z.min_temp <= temp < z.max_temp; a reading below the first zone's min_temp
\* selects zone 0 and a reading at or above the last zone's max_temp selects
\* the last zone (zones [0,50),[50,100): 49.9 -> 0, 50.0 -> 1, -5 -> 0,
\* 150 -> 1).
C5_ZoneSelection ==
    /\ (last.step = "temp" /\ last.sensor = "ok") =>
        LET i == TempIdx(last.port)
            zones == Unwrap(TempPorts[i].effect).config.zones
            z == tr[i].current_zone_idx
            matching == {j \in 1..Len(zones) :
                            zones[j].min_temp <= last.temp /\ last.temp < zones[j].max_temp}
        IN  /\ validate_zones(zones).ok
            /\ \A j \in 1..Len(zones) : zones[j].min_temp < zones[j].max_temp
            /\ Cardinality(matching) <= 1
            /\ matching # {} => z + 1 \in matching
            /\ last.temp < zones[1].min_temp => z = 0
            /\ last.temp >= zones[Len(zones)].max_temp => z = Len(zones) - 1
    /\ select_zone(ExampleZones, 499) = 0
    /\ select_zone(ExampleZones, 500) = 1
    /\ select_zone(ExampleZones, -50) = 0
    /\ select_zone(ExampleZones, 1500) = 1

C5_Witness ==
    /\ last.step = "temp"
    /\ last.sensor = "ok"
    /\ last.temp = 500
    /\ tr[TempIdx(last.port)].current_zone_idx = 1

\* a temperature port's tick that rendered the zone effect (outside fallback,
\* the sensor read, if any, succeeded) while the transition of its most
\* recent zone switch is in progress, k = hist.ticks frames after the switch
Blending(i) ==
    /\ last.step = "temp"
    /\ TempPorts[i].port = last.port
    /\ ~last.was_fallback
    /\ last.sensor # "fail"
    /\ hist[i].switched
    /\ Unwrap(TempPorts[i].effect).config.transition_frames > 0
    /\ hist[i].ticks < Unwrap(TempPorts[i].effect).config.transition_frames

\* the frames elapsed since the switch as the loop computes them:
\* frame.saturating_sub(start), which is 0 once the counter has wrapped
Elapsed(i) == saturating_sub(last.frame, hist[i].at).lo

\* the blend of the old zone's render of frame fo and the new zone's render
\* of the frame of the last step, k / transition_frames of the way
BlendOf(i, fo, k) ==
    LET e == TempPorts[i]
        cfg == Unwrap(e.effect).config
        old_effect == cfg.zones[hist[i].from_zone + 1].effect
        new_effect == cfg.zones[tr[i].current_zone_idx + 1].effect
    IN  interpolate_colors(generate(old_effect, fo, e.led_count, e.brightness),
                           generate(new_effect, last.frame, e.led_count, e.brightness),
                           <<k, cfg.transition_frames>>)

CallsOf(fn) == {c \in {last.calls[j] : j \in 1..Len(last.calls)} : c.fn = fn}
ValidPort(port) == port \in 1..5

\* the chunk id of a written RGB report (payload byte 5)
ChunkIdOf(ev) == ev.report[7]
Writes(io) == SelectSeq(io, LAMBDA ev : ev.ev = "write")
\* the exchange of a written report succeeded: it was written, read back and
\* carries the success sentinel
ExchangeOk(io, w) ==
    /\ io[w].ev = "write" /\ io[w].reply.kind # "write_err"
    /\ Len(io) > w /\ io[w + 1].ev = "read" /\ Succeeds(io[w + 1].reply)

\* C7: set_rgb_colors sends chunk 1 and then chunk 2, validates each chunk's
\* response status independently and returns success only if both chunks
\* report the success sentinel; if chunk 1's exchange fails or its status is
\* not the success sentinel, chunk 2 is never written in that call.
C7_ChunksInOrder ==
    \A c \in CallsOf("set_rgb_colors") :
        (ValidPort(c.port) /\ ~c.panic) =>
            LET w == Writes(c.io)
            IN  /\ Len(w) \in 1..RGB_CHUNK_COUNT
                /\ \A k \in 1..Len(w) : ChunkIdOf(w[k]) = k
                /\ c.io[1].ev = "write"
                /\ Len(w) = 2 => (ExchangeOk(c.io, 1) /\ c.io[3].ev = "write")
                /\ ~ExchangeOk(c.io, 1) => Len(w) = 1
                /\ c.res.ok <=> (Len(w) = 2 /\ ExchangeOk(c.io, 1) /\ ExchangeOk(c.io, 3))

C7_Witness ==
    \E c \in CallsOf("set_rgb_colors") :
        /\ ValidPort(c.port)
        /\ Len(c.io) = 2
        /\ c.io[2].ev = "read"
        /\ StatusOf(c.io[2].reply) = STATUS_FAILURE
        /\ ~c.res.ok

\* the literal piece that follows the operation in a message of
\* check_response_status
KindOf(res, operation) == res.err[1][Len(operation) + 1]

\* C8: check_response_status returns success iff the response is longer than
\* 2 bytes and its status byte (index 2) is 0xFC; status 0xFE yields a
\* device-reported-failure error, every other status an unexpected-status
\* error, a response of length <= 2 a too-short error; the four outcomes are
\* mutually distinguishable and each error names the operation.
C8_StatusOutcomes ==
    IsSome(call) =>
        LET c == Unwrap(call)
            r == c.response
            op == c.operation
        IN  /\ c.res.ok <=> (Len(r) > 2 /\ r[3] = 252)
            /\ ~c.res.ok =>
                /\ Len(c.res.err) = 1
                /\ SubSeq(c.res.err[1], 1, Len(op)) = op
                /\ KindOf(c.res, op) =
                      IF Len(r) <= 2 THEN " failed: Response too short ("
                      ELSE IF r[3] = 254 THEN " failed: Device returned error (0xFE)"
                      ELSE " failed: Unexpected status 0x"

C8_Witness ==
    /\ IsSome(call)
    /\ Len(Unwrap(call).response) = 4
    /\ Unwrap(call).response[3] = 254
    /\ Unwrap(call).response[4] = 252
    /\ ~Unwrap(call).res.ok

\* the validation errors of the protocol operations
InvalidPort(port) == Err(<<<<"Invalid port ", ToString(port), ". Must be 1-5">>>>)
InvalidSpeed(speed) == Err(<<<<"Invalid speed ", ToString(speed), ". Must be 0-100">>>>)

\* C9: set_speed with a port outside 1..=5 or a percent above 100 returns a
\* validation error without writing or reading any report; likewise
\* set_rgb_colors and get_port_status with a port outside 1..=5 perform no
\* I/O.
C9_ValidationBeforeIo ==
    /\ \A c \in CallsOf("set_speed") :
        (~ValidPort(c.port) \/ c.speed > 100) =>
            /\ c.io = <<>>
            /\ c.res = IF ~ValidPort(c.port) THEN InvalidPort(c.port) ELSE InvalidSpeed(c.speed)
    /\ \A c \in CallsOf("set_rgb_colors") \cup CallsOf("get_port_status") :
        ~ValidPort(c.port) => (c.io = <<>> /\ c.res = InvalidPort(c.port))

C9_Witness ==
    \E c \in CallsOf("set_speed") : ValidPort(c.port) /\ c.speed > 100 /\ c.io = <<>>

C9_WitnessRgb == \E c \in CallsOf("set_rgb_colors") : ~ValidPort(c.port) /\ c.io = <<>>
C9_WitnessStatus == \E c \in CallsOf("get_port_status") : ~ValidPort(c.port) /\ c.io = <<>>

\* a valid set_speed call: the command report is written first
SpeedCommandWritten(c) ==
    /\ Len(c.io) >= 1
    /\ c.io[1].ev = "write"
    /\ c.io[1].report = Report(<<50, 81, c.port, 1, c.speed>>)
    /\ \A k \in 2..Len(c.io) : c.io[k].ev = "read"



\* C10 (as stated): for every valid port p and speed s, set_speed writes the
\* command [0x32, 0x51, p, 0x01, s]; a response with the success sentinel
\* yields no error, and a response with the failure sentinel yields an error
\* that is specific to the speed operation and names the port p.
C10_SpeedErrorNamesPort ==
    \A c \in CallsOf("set_speed") :
        (ValidPort(c.port) /\ c.speed <= 100) =>
            /\ SpeedCommandWritten(c)
            /\ (Len(c.io) = 2 /\ Succeeds(c.io[2].reply)) => c.res.ok
            /\ (Len(c.io) = 2 /\ c.io[2].reply.kind = "data"
                    /\ StatusOf(c.io[2].reply) = STATUS_FAILURE) =>
                /\ ~c.res.ok
                /\ \E m \in 1..Len(c.res.err) :
                    /\ c.res.err[m][1] = "Set speed"
                    /\ \E n \in 1..Len(c.res.err[m]) : c.res.err[m][n] = ToString(c.port)

\* C10 (amended): for every valid port p and speed s, set_speed writes the
\* command [0x32, 0x51, p, 0x01, s]; a response with the success sentinel
\* yields no error, and a response with the failure sentinel yields the error
\* "Set speed failed: Device returned error (0xFE)", which is specific to the
\* speed operation and does not name the port.
C10_SpeedRoundTrip ==
    \A c \in CallsOf("set_speed") :
        (ValidPort(c.port) /\ c.speed <= 100) =>
            /\ SpeedCommandWritten(c)
            /\ (Len(c.io) = 2 /\ Succeeds(c.io[2].reply)) => c.res.ok
            /\ (Len(c.io) = 2 /\ c.io[2].reply.kind = "data"
                    /\ StatusOf(c.io[2].reply) = STATUS_FAILURE) =>
                c.res = Err(<<<<"Set speed", " failed: Device returned error (0xFE)">>>>)

C10_Witness ==
    \E c \in CallsOf("set_speed") :
        /\ c.port = 3 /\ c.speed = 80
        /\ Len(c.io) = 2
        /\ StatusOf(c.io[2].reply) = STATUS_FAILURE
        /\ ~c.res.ok

\* the reports exchanged during the last step, over all its calls in order
RECURSIVE IoOf(_)
IoOf(calls) == IF calls = <<>> THEN <<>> ELSE Head(calls).io \o IoOf(Tail(calls))
StepIo == IoOf(last.calls)

Written(ev) == ev.ev = "write" /\ ev.reply.kind # "write_err"
\* a timed read that timed out, returned no byte or failed
ReadFailed(ev) ==
    ev.ev = "read" /\ (ev.reply.kind # "data" \/ Len(ev.reply.bytes) = 0)

\* C11: the handle is used strictly request/response: every report
\* successfully written is followed by exactly one timed read before any other
\* report is written; a timeout or empty read fails that operation and the
\* same report is not sent again by it.
C11_RequestResponse ==
    /\ \A k \in 1..Len(StepIo) :
        /\ Written(StepIo[k]) => (k < Len(StepIo) /\ StepIo[k + 1].ev = "read")
        /\ StepIo[k].ev = "read" => (k > 1 /\ Written(StepIo[k - 1]))
    /\ \A c \in {last.calls[j] : j \in 1..Len(last.calls)} :
        \A k \in 1..Len(c.io) :
            (ReadFailed(c.io[k]) \/ (c.io[k].ev = "write" /\ ~Written(c.io[k]))) =>
                (k = Len(c.io) /\ ~c.res.ok)

C11_Witness ==
    /\ Len(last.calls) = 2
    /\ Len(last.calls[1].io) = 2
    /\ ReadFailed(last.calls[1].io[2])
    /\ Len(last.calls[2].io) = 4
    /\ ReadFailed(last.calls[2].io[4])

\* the bytes the device returned to the read of a call's only exchange
Received(c) == c.io[2].reply.bytes
Answered(c) ==
    Len(c.io) = 2 /\ c.io[2].reply.kind = "data" /\ Len(Received(c)) > 0

\* C12: get_port_status on a valid port returns the 'no device on this port'
\* condition when the status byte of the response is 0xFE, a parse error when
\* the response is shorter than 7 bytes, and a status only on a successful
\* response, with speed = byte 4 and rpm = byte 5 + 256 * byte 6.
C12_PortStatus ==
    \A c \in CallsOf("get_port_status") :
        (ValidPort(c.port) /\ Answered(c)) =>
            LET d == Received(c)
            IN  /\ (Len(d) > 2 /\ d[3] = STATUS_FAILURE) =>
                    c.res = Err(<<<<"No device connected on port ", ToString(c.port)>>>>)
                /\ (Len(d) < 7 /\ ~(Len(d) > 2 /\ d[3] = STATUS_FAILURE)) =>
                    (~c.res.ok /\ c.res.err[1][1] = "Invalid response length: ")
                /\ c.res.ok =>
                    /\ Len(d) >= 7
                    /\ c.res.val.speed = d[5]
                    /\ c.res.val.rpm = d[6] + 256 * d[7]
                    /\ c.res.val.rpm \in 0..65535

\* the entries of setup for one operation
SetupOf(fn) == SelectSeq(setup, LAMBDA c : c.fn = fn)
InitSucceeded == setup # <<>> /\ setup[1].fn = "init" /\ setup[1].ok

\* C13: in both modes the device is initialized exactly once and init is the
\* first exchange on the handle: no set_speed, set_rgb_colors or
\* get_port_status call is made unless init has returned success, and an init
\* failure ends the program without any further command.
C13_InitFirst ==
    /\ Len(SetupOf("init")) <= 1
    /\ setup # <<>> => setup[1].fn = "init"
    /\ Len(setup) > 1 => setup[1].ok
    /\ pc \in {"startup_speeds", "normal", "temp", "end_frame", "command", "done", "panic"}
          => InitSucceeded
    /\ last.step \in {"startup_speed", "normal", "temp", "command"} => InitSucceeded
    /\ (setup # <<>> /\ ~setup[1].ok) => (pc = "failed" /\ Len(setup) = 1)
    /\ pc = "failed" => ~ENABLED Next

C13_Witness == Len(setup) >= 2 /\ setup[2].exchanged /\ cli.command = "Daemon"

C13_WitnessFailed == Len(setup) = 1 /\ ~setup[1].ok /\ cli.command = "Speed"

\* the ports of a sequence of entries
PortsOf(entries) == [j \in 1..Len(entries) |-> entries[j].port]

\* C14: when speed_once_at_startup is enabled, each configured port that
\* specifies a speed receives exactly one set_speed call between init and the
\* first loop iteration (temperature-reactive ports included), whatever the
\* outcome of the calls for the other ports; when it is disabled no set_speed
\* is issued before the loop.
C14_StartupSpeeds ==
    (cli.command = "Daemon" /\ InLoop) =>
        PortsOf(SetupOf("set_speed")) =
            IF config.speed_once_at_startup
            THEN PortsOf(SelectSeq(config.ports, LAMBDA e : IsSome(e.speed)))
            ELSE <<>>

C14_Witness ==
    /\ InLoop
    /\ Len(SetupOf("set_speed")) = 2
    /\ ~SetupOf("set_speed")[1].ok
    /\ IsTempPort(SetupOf("set_speed")[2].port)

C14_WitnessDisabled ==
    /\ InLoop
    /\ ~config.speed_once_at_startup
    /\ \E i \in 1..Len(config.ports) : IsSome(config.ports[i].speed)
    /\ SetupOf("set_speed") = <<>>


(***************************************************************************)
(* C15: speed reapplication inside the loop                                *)
(***************************************************************************)
\* a port whose effect parsed to something other than Static exists
AnimatedPortExists ==
    \E i \in 1..Len(config.ports) :
        IsSome(config.ports[i].effect) /\ Unwrap(config.ports[i].effect).kind # "Static"

\* the entry of config.ports the last step of the normal sweep was about
LastEntry == config.ports[CHOOSE i \in 1..Len(config.ports) : config.ports[i].port = last.port]

SpeedIssued == \E c \in CallsOf("set_speed") : c.port = last.port /\ c.speed = Unwrap(LastEntry.speed)

\* C15: in the loop, set_speed is issued for a port that is not
\* temperature-reactive and has a configured speed, on frame f, if and only
\* if (speed_once_at_startup is disabled, or the port has reapply_speed, or
\* the interval has elapsed since last_speed_apply) and (no animated or
\* temperature-reactive port exists, or f mod 150 = 0); while animations run
\* no loop step on a frame with f mod 150 # 0 calls set_speed
C15_SpeedReapplication ==
    /\ (last.step = "normal" /\ ~IsTempPort(last.port) /\ IsSome(LastEntry.speed)) =>
          (SpeedIssued <=>
              /\ \/ ~config.speed_once_at_startup
                 \/ LastEntry.reapply_speed
                 \/ speed_age >= cli.interval
              /\ \/ ~AnimatedPortExists
                 \/ U32Mod(last.frame, 150) = 0)
    /\ (last.step \in {"normal", "temp"} /\ AnimatedPortExists /\ U32Mod(last.frame, 150) # 0) =>
          CallsOf("set_speed") = {}
    /\ (last.step = "normal" /\ (IsTempPort(last.port) \/ ~IsSome(LastEntry.speed))) =>
          CallsOf("set_speed") = {}

\* the interval alone makes the loop reapply a speed
C15_Witness ==
    /\ last.step = "normal" /\ IsSome(LastEntry.speed) /\ SpeedIssued
    /\ config.speed_once_at_startup /\ ~LastEntry.reapply_speed
    /\ speed_age >= cli.interval

\* an animated configuration holds a due speed back on an unaligned frame
C15_WitnessHeldBack ==
    /\ last.step = "normal" /\ IsSome(LastEntry.speed) /\ ~SpeedIssued
    /\ ~config.speed_once_at_startup
    /\ AnimatedPortExists /\ U32Mod(last.frame, 150) # 0

\* the interval has not elapsed and nothing else asks for the speed
C15_WitnessNotDue ==
    /\ last.step = "normal" /\ IsSome(LastEntry.speed) /\ ~SpeedIssued
    /\ ~AnimatedPortExists /\ speed_age < cli.interval


(***************************************************************************)
(* C16: errors of a single command                                         *)
(***************************************************************************)
\* C16: in single-command mode, once init or the command's device operation
\* (set_rgb, set_speed, get_port_status) has returned an error the program
\* has ended with a failure (an error returned from main, or a panic); it
\* never goes on to report successful completion
C16_SingleCommandErrorsFatal ==
    (cli.command # "Daemon" /\ \E j \in 1..Len(setup) : ~setup[j].ok) =>
        pc \in {"failed", "panic"}


(***************************************************************************)
(* C17: malformed port entries at daemon startup                           *)
(***************************************************************************)
\* a port table whose key is no port number or whose effect does not parse
Malformed(port_config) == ~parse_u8(port_config.key).ok \/ ~parse_effect(port_config).ok

LoggedFor(i) == {j \in 1..Len(last.log) : last.log[j].key = config.raw[i].key}

\* C17: at daemon startup a malformed port entry (unparseable key, unknown
\* effect or color, invalid zone list) is skipped with a logged error: the
\* parsing loop logs an error for each malformed entry and the effect of
\* each other entry, the daemon goes on to open the device, and in the loop
\* every well-formed port that is not temperature-reactive is sent its colors
\* while a malformed one is sent none
C17_MalformedPortSkipped ==
    /\ last.step = "parse" =>
          /\ pc = "open"
          /\ \A i \in 1..Len(config.raw) :
                /\ LoggedFor(i) # {}
                /\ \A j \in LoggedFor(i) : last.log[j].res.ok <=> ~Malformed(config.raw[i])
    /\ (last.step = "normal" /\ ~IsTempPort(last.port)) =>
          (CallsOf("set_rgb_colors") # {} <=> IsSome(LastEntry.effect))


(***************************************************************************)
(* parse_temp_reactive applied to arbitrary zone lists                     *)
(***************************************************************************)
MaxZones == 2

ZoneBounds == {200, 500, 800}

\* a static zone, an unknown effect, a flow whose only color name is unknown
\* and a flow with one usable color
ZoneTomls ==
    {ZoneToml(lo, hi, z[1], Some("red"), None, z[2]) :
        lo \in ZoneBounds, hi \in ZoneBounds,
        z \in {<<"static", None>>, <<"sparkle", None>>, <<"flow", Some(<<"teal">>)>>,
               <<"flow", Some(<<"teal", "red">>)>>}}

ApplyParseTempReactive ==
    /\ pc = "pure"
    /\ call = None
    /\ \E zones \in SeqsUpTo(ZoneTomls, MaxZones) :
        call' = Some([fn |-> "parse_temp_reactive", zones |-> zones,
                      res |-> parse_temp_reactive(TempReactiveToml(zones, 30))])
    /\ UNCHANGED <<cli, config, pc, idx, frame, speed_age, tr, hist, last, setup>>

SpecZones == InitPure /\ [][ApplyParseTempReactive]_vars

(***************************************************************************)
(* C18: which temperature-reactive configurations are accepted             *)
(***************************************************************************)
\* the temperatures at and between the zone bounds
ProbeTemps == {150, 200, 350, 499, 500, 650, 799, 800, 950}

\* C18: a temperature-reactive configuration is accepted only if its zone
\* list is non-empty, every zone has min_temp < max_temp, adjacent zones
\* meet (zone[i].max_temp = zone[i+1].min_temp) and no zone uses a flow
\* effect with a zero-length color list; so in an accepted configuration the
\* zones ascend and every temperature in [zone[0].min_temp,
\* zone[last].max_temp) lies in exactly one zone
C18_AcceptedZones ==
    (IsSome(call) /\ Unwrap(call).res.ok) =>
        LET zones == Unwrap(call).res.val.zones
            n == Len(zones)
        IN  /\ n > 0
            /\ n = Len(Unwrap(call).zones)
            /\ \A i \in 1..n : zones[i].min_temp < zones[i].max_temp
            /\ \A i \in 1..(n - 1) : zones[i].max_temp = zones[i + 1].min_temp
            /\ \A i \in 1..n : ~(zones[i].effect.kind = "Flow" /\ Len(zones[i].effect.colors) = 0)
            /\ \A i \in 1..(n - 1) : zones[i].min_temp < zones[i + 1].min_temp
            /\ \A t \in ProbeTemps :
                  (zones[1].min_temp <= t /\ t < zones[n].max_temp) =>
                      Cardinality({i \in 1..n : contains(zones[i], t)}) = 1


(***************************************************************************)
(* Effect::generate applied to arbitrary frames, and again one cycle of    *)
(* loop iterations later                                                   *)
(***************************************************************************)
MaxEffectFrame == 60
AnimatedFrames == 3     \* frames at which the arms taken as given are applied
EffectWrapLead == 30

\* the frame counter after n more iterations of the loop (n times
\* frame.wrapping_add(1)), for n < 65536
FrameAfter(f, n) ==
    IF f.lo + n < HALF THEN U32(f.hi, f.lo + n)
    ELSE IF f.hi < HALF - 1 THEN U32(f.hi + 1, f.lo + n - HALF)
    ELSE U32(0, f.lo + n - HALF)

EffectFrames ==
    {U32Of(k) : k \in 0..MaxEffectFrame}
    \cup {U32Minus(U32Max, U32Of(k)) : k \in 0..EffectWrapLead}

EffectInputs ==
    {Blink(ORANGE, s) : s \in {"Extreme", "Fast", "Normal", "Slow"}}
    \cup {Flow(cs, s) : cs \in {<<>>, <<PINK>>, <<RED, GREEN, BLUE>>,
                                <<RED, GREEN, BLUE, YELLOW, SKY>>},
                        s \in {"Extreme", "Fast"}}
    \cup {Spectrum("Normal"), Wave(CYAN, "Slow"), Pulse(PURPLE, "Fast"),
          Ripple(LIME, "Extreme")}

ApplyGenerate ==
    /\ pc = "pure"
    /\ call = None
    /\ \E e \in EffectInputs, f \in EffectFrames, led_count \in {1, 3, 20},
          brightness \in {Full, HalfBright} :
        IF e.kind \in {"Blink", "Flow"}
        THEN call' = Some([fn |-> "generate", effect |-> e, frame |-> f,
                           led_count |-> led_count, brightness |-> brightness,
                           colors |-> generate(e, f, led_count, brightness),
                           later |-> generate(e, FrameAfter(f, frames_per_cycle(e.speed)),
                                              led_count, brightness)])
        ELSE \E level \in {<<0, 1>>, <<1, 2>>, <<1, 1>>}, hue \in {RED, YELLOW} :
                /\ U32Below(f, AnimatedFrames)
                /\ call' = Some([fn |-> "generate", effect |-> e, frame |-> f,
                                 led_count |-> led_count, brightness |-> brightness,
                                 colors |-> generate_animated(e, led_count, brightness,
                                                              level, hue),
                                 later |-> <<>>])
    /\ UNCHANGED <<cli, config, pc, idx, frame, speed_age, tr, hist, last, setup>>

SpecEffects == InitPure /\ [][ApplyGenerate]_vars

(***************************************************************************)
(* C19: Blink                                                              *)
(***************************************************************************)
\* C19: Blink with cycle length L renders the color scaled by brightness on
\* all LEDs for frames f with f mod L in [0, L/2) and all-black for f mod L
\* in [L/2, L), and over the successive values of the wrapping u32 frame
\* counter the output has period L: the render L iterations after f equals
\* the render at f
C19_BlinkPeriod ==
    (IsSome(call) /\ Unwrap(call).effect.kind = "Blink") =>
        LET c == Unwrap(call)
            L == frames_per_cycle(c.effect.speed)
            phase == U32Mod(c.frame, L)
        IN  /\ Len(c.colors) = c.led_count
            /\ \A i \in 1..c.led_count :
                  c.colors[i] = IF 2 * phase < L
                                THEN with_brightness(c.effect.color, c.brightness)
                                ELSE Color(0, 0, 0)
            /\ c.later = c.colors


(***************************************************************************)
(* C20: Flow                                                               *)
(***************************************************************************)
\* pos * n in exact arithmetic, as a multiple of 1 / (led_count * L), for
\* LED i of the call c: pos is the fractional part of
\* i / led_count + (f mod L) / L
ExactScaled(c, i) ==
    LET L == frames_per_cycle(c.effect.speed)
    IN  ((i * L + U32Mod(c.frame, L) * c.led_count) % (c.led_count * L)) * Len(c.effect.colors)

\* floor(pos * n) mod n in exact arithmetic
ExactBucket(c, i) ==
    (ExactScaled(c, i) \div (c.led_count * frames_per_cycle(c.effect.speed)))
        % Len(c.effect.colors)

\* pos * n is a whole number: LED i sits exactly where one color's share of
\* the strip ends and the next begins
OnBoundary(c, i) ==
    ExactScaled(c, i) % (c.led_count * frames_per_cycle(c.effect.speed)) = 0

Shown(c, k) == with_brightness(c.effect.colors[k + 1], c.brightness)

FlowCall == IsSome(call) /\ Unwrap(call).effect.kind = "Flow"

\* C20 as stated: Flow with a non-empty list of n colors gives LED i the
\* color colors[floor(pos * n) mod n] with pos the fractional part of
\* i / led_count + (f mod L) / L; with three colors, three LEDs and frame 0
\* LED i shows colors[i]; an empty list yields led_count off colors
C20_FlowExactBucket ==
    FlowCall =>
        LET c == Unwrap(call)
        IN  /\ Len(c.colors) = c.led_count
            /\ \A i \in 0..(c.led_count - 1) :
                  IF c.effect.colors = <<>> THEN c.colors[i + 1] = OFF
                  ELSE c.colors[i + 1] = Shown(c, ExactBucket(c, i))

\* C20 (amended): the index is computed in f32, so every LED shows a color
\* of the list (the index is within 0..n-1); it is the color of the exact
\* bucket floor(pos * n) mod n, except that an LED exactly on a bucket
\* boundary may show the color of the bucket before it; with three colors,
\* three LEDs and frame 0 LED i shows colors[i]; an empty list yields
\* led_count off colors
C20_FlowF32Bucket ==
    FlowCall =>
        LET c == Unwrap(call)
            n == Len(c.effect.colors)
        IN  /\ Len(c.colors) = c.led_count
            /\ \A i \in 0..(c.led_count - 1) :
                  IF n = 0 THEN c.colors[i + 1] = OFF
                  ELSE /\ \E k \in 0..(n - 1) : c.colors[i + 1] = Shown(c, k)
                       /\ \/ c.colors[i + 1] = Shown(c, ExactBucket(c, i))
                          \/ /\ OnBoundary(c, i)
                             /\ c.colors[i + 1] = Shown(c, (ExactBucket(c, i) + n - 1) % n)
            /\ (n = 3 /\ c.led_count = 3 /\ c.frame = U32Zero) =>
                  \A i \in 0..2 : c.colors[i + 1] = Shown(c, i)

\* a Flow render in which an LED on a bucket boundary shows the color of
\* the bucket before it while another LED shows the color of its bucket
C20_Witness ==
    /\ FlowCall
    /\ Len(Unwrap(call).effect.colors) = 3
    /\ \E i \in 0..(Unwrap(call).led_count - 1) :
          /\ OnBoundary(Unwrap(call), i)
          /\ Unwrap(call).colors[i + 1] # Shown(Unwrap(call), ExactBucket(Unwrap(call), i))
          /\ Unwrap(call).colors[i + 1] = Shown(Unwrap(call), (ExactBucket(Unwrap(call), i) + 2) % 3)
    /\ \E i \in 0..(Unwrap(call).led_count - 1) :
          /\ ~OnBoundary(Unwrap(call), i)
          /\ Unwrap(call).colors[i + 1] = Shown(Unwrap(call), ExactBucket(Unwrap(call), i))

\* the example of the claim: three colors, three LEDs, frame 0
C20_WitnessExample ==
    /\ FlowCall
    /\ Unwrap(call).effect.colors = <<RED, GREEN, BLUE>>
    /\ Unwrap(call).led_count = 3 /\ Unwrap(call).frame = U32Zero
    /\ Unwrap(call).brightness = Full
    /\ Unwrap(call).colors = <<RED, GREEN, BLUE>>

\* an empty color list renders led_count off colors
C20_WitnessEmpty ==
    /\ FlowCall
    /\ Unwrap(call).effect.colors = <<>>
    /\ Unwrap(call).colors = <<OFF, OFF, OFF>>


(***************************************************************************)
(* The two port loops of one iteration                                     *)
(***************************************************************************)
\* the visits of the current iteration's record made by one loop to one port
VisitsOf(path, port) ==
    {j \in 1..Len(last.sweep) : last.sweep[j].path = path /\ last.sweep[j].port = port}

\* C21: a temperature-reactive port is rendered by the temperature-reactive
\* engine only.  The normal-port loop passes over it without any call, so no
\* set_rgb_colors call of that loop (which would carry the all-off placeholder
\* of Effect::TempReactive) reaches it; the temperature loop comes to
\* temperature-reactive ports only, and what it sends outside fallback on the
\* frames followed from 0 is the zone render or blend, never the placeholder;
\* no port is handled twice by a loop or by both loops, and when an iteration
\* has run through, every configured port has been handled by exactly one of
\* them.
C21_TempPortsOnlyByEngine ==
    (InLoop /\ LoopStep) =>
        /\ \A j \in 1..Len(last.sweep) :
                LET v == last.sweep[j]
                IN  /\ v.path = "temp" => IsTempPort(v.port)
                    /\ (v.path = "normal" /\ IsTempPort(v.port)) => v.rgb = 0
                    /\ Cardinality(VisitsOf(v.path, v.port)) = 1
        /\ (last.step = "normal" /\ IsTempPort(last.port)) => last.calls = <<>>
        /\ (last.step = "temp" /\ ~last.was_fallback /\ last.calls # <<>>) =>
                Sent # generate(Unwrap(TempPorts[TempIdx(last.port)].effect), last.frame,
                                TempPorts[TempIdx(last.port)].led_count,
                                TempPorts[TempIdx(last.port)].brightness)
        /\ pc = "end_frame" =>
                \A i \in 1..Len(config.ports) :
                    LET e == config.ports[i]
                    IN  /\ Cardinality(VisitsOf("normal", e.port)) = 1
                        /\ Cardinality(VisitsOf("temp", e.port)) = IF IsTemp(e) THEN 1 ELSE 0
                        /\ \A j \in VisitsOf("temp", e.port) : last.sweep[j].rgb <= 1

\* an iteration has run through both loops over a normal port and a
\* temperature-reactive port: the normal loop made its call for the first
\* and none for the second, the temperature loop sent a zone render to the
\* second
C21_Witness ==
    /\ pc = "end_frame"
    /\ Len(config.ports) = 2
    /\ last.step = "temp"
    /\ last.sensor = "ok"
    /\ Len(last.calls) = 1
    /\ Sent # Repeat(OFF, Len(Sent))
    /\ \E j, k \in 1..Len(last.sweep) :
            /\ last.sweep[j].path = "normal" /\ ~IsTempPort(last.sweep[j].port)
            /\ last.sweep[j].rgb = 1
            /\ last.sweep[k].path = "normal" /\ IsTempPort(last.sweep[k].port)
            /\ last.sweep[k].rgb = 0


(***************************************************************************)
(* Zone switches and transitions                                           *)
(***************************************************************************)
\* the step now taken is the temperature loop's visit of TempPorts[idx] with a
\* successful sensor read
ReadsOk == pc = "temp" /\ last'.step = "temp" /\ last'.sensor = "ok"
\* ... and the reading selects another zone than current_zone_idx
Switches ==
    /\ ReadsOk
    /\ select_zone(Unwrap(TempPorts[idx].effect).config.zones, last'.temp)
            # tr[idx].current_zone_idx
\* the render of zone z of TempPorts[i] at frame f
ZoneRender(i, z, f) ==
    generate(Unwrap(TempPorts[i].effect).config.zones[z + 1].effect, f,
             TempPorts[i].led_count, TempPorts[i].brightness)

\* C22: when a successful read selects a zone different from current_zone_idx
\* and transition_frames > 0, then within that tick transition_from_colors
\* becomes the previous zone's effect rendered at the current frame,
\* transition_start_frame becomes the current frame and current_zone_idx
\* becomes the new zone; when transition_frames = 0 the zone index is switched,
\* no transition state is set, and the new zone's unblended render is sent on
\* that tick.
C22_SwitchTick ==
    [][Switches =>
        LET cfg == Unwrap(TempPorts[idx].effect).config
            new_zone == select_zone(cfg.zones, last'.temp)
        IN  /\ tr'[idx].current_zone_idx = new_zone
            /\ cfg.transition_frames > 0 =>
                /\ tr'[idx].transition_from_colors
                        = Some(ZoneRender(idx, tr[idx].current_zone_idx, frame))
                /\ tr'[idx].transition_start_frame = Some(frame)
            /\ cfg.transition_frames = 0 =>
                /\ tr'[idx].transition_from_colors = None
                /\ tr'[idx].transition_start_frame = None
                /\ Len(last'.calls) = 1
                /\ last'.calls[1].colors = ZoneRender(idx, new_zone, frame)
    ]_vars

\* a read has just switched the zone of a port with transition_frames > 0
C22_Witness ==
    /\ last.step = "temp" /\ last.sensor = "ok"
    /\ hist[TempIdx(last.port)].switched
    /\ hist[TempIdx(last.port)].ticks = 0
    /\ Unwrap(TempPorts[TempIdx(last.port)].effect).config.transition_frames > 0
    /\ tr[TempIdx(last.port)].transition_start_frame = Some(last.frame)
    /\ tr[TempIdx(last.port)].current_zone_idx = 2

\* a read has just switched the zone of a port with transition_frames = 0
C22_WitnessImmediate ==
    /\ last.step = "temp" /\ last.sensor = "ok"
    /\ hist[TempIdx(last.port)].switched
    /\ hist[TempIdx(last.port)].ticks = 0
    /\ Unwrap(TempPorts[TempIdx(last.port)].effect).config.transition_frames = 0
    /\ tr[TempIdx(last.port)].current_zone_idx = 1
    /\ Len(last.calls) = 1
    /\ Sent = ZoneRender(TempIdx(last.port), 1, last.frame)


\* C23: during a transition the blend is computed against the live target: on
\* every tick k frames after the switch with k < transition_frames, the
\* colors sent are the pointwise lerp of the stored snapshot and the current
\* zone's render of the current frame with t = k / transition_frames, so that
\* t does not decrease over the transition and the target side follows the
\* new zone's animation frame by frame.
C23_BlendAgainstLiveTarget ==
    \A i \in DOMAIN tr :
        Blending(i) =>
            /\ Len(last.calls) = 1
            /\ IsSome(tr[i].transition_from_colors)
            /\ Sent = interpolate_colors(
                          Unwrap(tr[i].transition_from_colors),
                          ZoneRender(i, tr[i].current_zone_idx, last.frame),
                          <<hist[i].ticks, Unwrap(TempPorts[i].effect).config.transition_frames>>)


\* the last step is the tick of TempPorts[i], outside fallback and with no
\* failed read, k frames after its most recent zone switch (transition_frames
\* = T > 0)
TicksAfterSwitch(i, k) ==
    /\ last.step = "temp"
    /\ TempPorts[i].port = last.port
    /\ ~last.was_fallback
    /\ last.sensor # "fail"
    /\ hist[i].switched
    /\ Unwrap(TempPorts[i].effect).config.transition_frames > 0
    /\ hist[i].ticks = k

\* C24: a transition started at frame F with transition_frames = T > 0 ends at
\* the tick of frame F+T: on that tick (port not in fallback) the colors sent
\* are the new zone's unblended render and transition_start_frame and
\* transition_from_colors are both cleared, so that every started transition
\* of a port that stays out of fallback is cleared T ticks after its start.
C24_TransitionEnds ==
    \A i \in DOMAIN tr :
        TicksAfterSwitch(i, Unwrap(TempPorts[i].effect).config.transition_frames) =>
            /\ Len(last.calls) = 1
            /\ Sent = ZoneRender(i, tr[i].current_zone_idx, last.frame)
            /\ tr[i].transition_start_frame = None
            /\ tr[i].transition_from_colors = None

\* before the frame counter wraps, the tick T frames after a switch is reached
\* and has cleared the transition
C24_Reached ==
    \E i \in DOMAIN tr :
        /\ TicksAfterSwitch(i, Unwrap(TempPorts[i].effect).config.transition_frames)
        /\ tr[i].transition_start_frame = None


\* C26: the elapsed-frame computation of a transition stays correct across the
\* wraparound of the frame counter: on the tick k frames after the switch at
\* frame F the elapsed value the blend factor is taken from is k while
\* k < transition_frames (so the factor never moves backwards), and from the
\* tick transition_frames after the switch on the transition is cleared, also
\* when the counter has wrapped from its maximum to 0 since F.
C26_ElapsedAcrossWrap ==
    \A i \in DOMAIN tr :
        TicksAfterSwitch(i, hist[i].ticks) =>
            IF hist[i].ticks < Unwrap(TempPorts[i].effect).config.transition_frames
            THEN /\ tr[i].transition_start_frame = Some(hist[i].at)
                 /\ Elapsed(i) = hist[i].ticks
            ELSE tr[i].transition_start_frame = None


\* the colors the tick now taken would send for TempPorts[idx] had the zone
\* not changed: the render of the state before the read
Unswitched ==
    tr_render(Unwrap(TempPorts[idx].effect).config, tr[idx], frame,
              TempPorts[idx].led_count, TempPorts[idx].brightness).colors

\* C25: transitions are continuous at the switch: on the tick of any zone
\* switch with transition_frames > 0 the colors sent equal the colors that
\* would have been sent on that frame had the zone not changed, also when the
\* switch happens while an earlier transition is still in progress.
C25_ContinuousAtSwitch ==
    [][(Switches /\ Unwrap(TempPorts[idx].effect).config.transition_frames > 0) =>
            /\ Len(last'.calls) = 1
            /\ last'.calls[1].colors = Unswitched
    ]_vars

\* the same for the switches made while no transition is in progress
C25_ContinuousWhenSettled ==
    [][(/\ Switches
        /\ Unwrap(TempPorts[idx].effect).config.transition_frames > 0
        /\ tr[idx].transition_start_frame = None) =>
            /\ Len(last'.calls) = 1
            /\ last'.calls[1].colors = Unswitched
    ]_vars


\* C27: the fallback age stays correct across the wraparound of the frame
\* counter: once a port in fallback has reached the solid-off phase (30 or
\* more ticks after entry), every later tick sends all-off and the magenta
\* blink does not reappear, also after the counter has wrapped to 0.
C27_FallbackStaysOff ==
    \A i \in DOMAIN tr :
        (/\ last.step = "temp"
         /\ TempPorts[i].port = last.port
         /\ last.was_fallback
         /\ hist[i].fb_ticks >= FALLBACK_BLINK_FRAMES) =>
            /\ Len(last.calls) = 1
            /\ Sent = Repeat(OFF, TempPorts[i].led_count)


\* the entries of config.ports the normal-port loop renders: not
\* temperature-reactive and with a parsed effect
Rendered == {i \in 1..Len(config.ports) :
                IsSome(config.ports[i].effect) /\ ~IsTemp(config.ports[i])}

\* the set_rgb_colors calls the iteration has made for entry i, by its record
RgbCallsFor(i) ==
    {j \in VisitsOf("normal", config.ports[i].port) : last.sweep[j].rgb = 1}

\* C28: on every loop iteration, every port that is not temperature-reactive
\* and has a parsed effect gets exactly one set_rgb_colors call, carrying that
\* effect rendered for the current frame with the port's led_count and
\* brightness, whether or not a set_speed call for the port was made or failed
\* in that iteration.  (The iteration is looked at once its normal-port loop is
\* over or the process has ended inside it.)
C28_OneRenderPerIteration ==
    /\ (LoopStep /\ pc \in {"temp", "end_frame", "panic"}) =>
            \A i \in Rendered : Cardinality(RgbCallsFor(i)) = 1
    /\ (last.step = "normal" /\ \E i \in Rendered : config.ports[i].port = last.port) =>
            /\ Cardinality(CallsOf("set_rgb_colors")) = 1
            /\ \A c \in CallsOf("set_rgb_colors") :
                    /\ c.port = last.port
                    /\ c.colors = generate(Unwrap(LastEntry.effect), last.frame,
                                           LastEntry.led_count, LastEntry.brightness)
                    /\ c = last.calls[Len(last.calls)]

\* the same for the iterations in which no call panicked
C28_OneRenderUnlessPanic ==
    /\ (LoopStep /\ pc \in {"temp", "end_frame"}) =>
            \A i \in Rendered : Cardinality(RgbCallsFor(i)) = 1
    /\ (last.step = "normal" /\ \E i \in Rendered : config.ports[i].port = last.port) =>
            /\ Cardinality(CallsOf("set_rgb_colors")) = 1
            /\ \A c \in CallsOf("set_rgb_colors") :
                    /\ c.port = last.port
                    /\ c.colors = generate(Unwrap(LastEntry.effect), last.frame,
                                           LastEntry.led_count, LastEntry.brightness)


(***************************************************************************)
(* The frame counter and the sensor cadence                                *)
(***************************************************************************)
\* b is the u32 after a: a + 1, or 0 after the u32 maximum
NextFrame(a, b) ==
    IF a = U32Max THEN b = U32Zero
    ELSE ~U32Less(b, a) /\ U32Minus(b, a) = U32(0, 1)

\* C29: the frame counter is 0 until the first loop iteration ends and
\* increases by exactly 1 at the end of every loop iteration, wrapping to 0
\* after the u32 maximum, however long the iteration took and whatever the
\* calls of the iteration returned; no other step changes it, so no frame
\* value is skipped or repeated and a long iteration is followed by the next
\* frame with no catch-up.
C29_FrameCounter ==
    /\ [](pc \in {"parse", "open", "init", "startup_speed"} => frame = U32Zero)
    /\ [][IF pc = "end_frame" /\ last'.step = "end_frame"
          THEN NextFrame(frame, frame') /\ last'.frame = frame
          ELSE frame' = frame]_vars

\* the frame counter has just wrapped from the u32 maximum to 0
C29_Witness ==
    /\ last.step = "end_frame"
    /\ last.frame = U32Max
    /\ frame = U32Zero
    /\ pc \in {"normal", "temp"}


\* the step now taken is the temperature loop's visit of TempPorts[idx]
TempTick == pc = "temp" /\ (pc' # pc \/ idx' # idx)

\* C30: sensor polling follows a time cadence of its own: a
\* temperature-reactive port queries the sensor on its first tick (frame 0),
\* and afterwards on a tick only if sensor_read_interval (5 s) has passed
\* since its last successful read, so that two queries of one port are never
\* closer than that interval; last_sensor_read is set by a successful read
\* and by nothing else (a failed read and a tick without a query leave it).
C30_SensorCadence ==
    [][/\ TempTick =>
            /\ frame = U32Zero => last'.sensor # "none"
            /\ last'.sensor # "none" <=>
                    (~tr[idx].fallback_mode
                        /\ tr[idx].sensor_age >= SENSOR_READ_INTERVAL_SECS)
            /\ last'.sensor # "none" =>
                    (hist[idx].queried =>
                        hist[idx].query_age >= SENSOR_READ_INTERVAL_SECS)
            /\ tr'[idx].sensor_age = IF last'.sensor = "ok" THEN 0
                                     ELSE tr[idx].sensor_age
            /\ \A i \in DOMAIN tr : i # idx => tr'[i] = tr[i]
       /\ pc \in {"normal", "startup_speed", "init", "open"} => tr' = tr
    ]_vars

\* a port queries the sensor for the second time, two ticks and 5 s or more
\* after its first read
C30_Witness ==
    /\ last.step = "temp"
    /\ last.sensor = "ok"
    /\ last.frame = U32(0, 2)
    /\ hist[TempIdx(last.port)].queried
    /\ tr[TempIdx(last.port)].sensor_age = 0

\* a tick less than 5 s after the read makes no query
C30_WitnessNotDue ==
    /\ last.step = "temp"
    /\ last.sensor = "none"
    /\ ~last.was_fallback
    /\ tr[TempIdx(last.port)].sensor_age \in 1..(SENSOR_READ_INTERVAL_SECS - 1)


(***************************************************************************)
(* Invariants of the temperature-reactive state                            *)
(***************************************************************************)
\* C31: in every reachable state of a temperature-reactive port,
\* transition_start_frame is set if and only if transition_from_colors is
\* set: the two are written together and cleared together, so the branch with
\* a start frame and no snapshot is never taken.
C31_TransitionFieldsTogether ==
    \A i \in DOMAIN tr :
        IsSome(tr[i].transition_start_frame) <=> IsSome(tr[i].transition_from_colors)

\* a transition is running: both fields are set
C31_Witness ==
    \E i \in DOMAIN tr :
        /\ hist[i].switched
        /\ hist[i].ticks = 1
        /\ IsSome(tr[i].transition_start_frame)
        /\ IsSome(tr[i].transition_from_colors)

\* a transition has run out: both fields are cleared again
C31_WitnessCleared ==
    \E i \in DOMAIN tr :
        /\ hist[i].switched
        /\ Unwrap(TempPorts[i].effect).config.transition_frames > 0
        /\ tr[i].transition_start_frame = None
        /\ tr[i].transition_from_colors = None


\* C32: in every reachable state, current_zone_idx of a temperature-reactive
\* port is a valid index into its zone list (0 <= current_zone_idx <
\* zones.len()), whatever the sequence of sensor readings (below the first
\* zone, inside a zone, on a zone bound, at or above the last zone's
\* max_temp), so that indexing the zone list never fails.
C32_ZoneIndexValid ==
    \A i \in DOMAIN tr :
        /\ Len(Unwrap(TempPorts[i].effect).config.zones) > 0
        /\ tr[i].current_zone_idx \in 0..(Len(Unwrap(TempPorts[i].effect).config.zones) - 1)

\* a reading at the last zone's max_temp has selected the last zone
C32_Witness ==
    \E i \in DOMAIN tr :
        /\ last.step = "temp" /\ last.sensor = "ok"
        /\ last.port = TempPorts[i].port
        /\ last.temp = 1000
        /\ tr[i].current_zone_idx = Len(Unwrap(TempPorts[i].effect).config.zones) - 1

\* a reading below the first zone's min_temp has brought the port back to
\* zone 0
C32_WitnessBelow ==
    \E i \in DOMAIN tr :
        /\ last.step = "temp" /\ last.sensor = "ok"
        /\ last.port = TempPorts[i].port
        /\ last.temp = 100
        /\ hist[i].switched
        /\ tr[i].current_zone_idx = 0


\* C33: in every reachable state, fallback_mode being set implies that
\* fallback_frame_start is set; it is set to the frame at which fallback was
\* entered and never changes afterwards (nor is it set outside fallback), so
\* the fallback branch that handles a missing start frame is never taken.
C33_FallbackStartFixed ==
    /\ [](\A i \in DOMAIN tr :
              tr[i].fallback_mode <=> IsSome(tr[i].fallback_frame_start))
    /\ [][\A i \in (DOMAIN tr) \cap (DOMAIN tr') :
              /\ (~tr[i].fallback_mode /\ tr'[i].fallback_mode) =>
                      (pc = "temp" /\ tr'[i].fallback_frame_start = Some(frame))
              /\ tr[i].fallback_mode =>
                      tr'[i].fallback_frame_start = tr[i].fallback_frame_start
         ]_vars

\* a port has been in fallback for two ticks; its start frame is still the
\* frame of the failed read
C33_Witness ==
    \E i \in DOMAIN tr :
        /\ tr[i].fallback_mode
        /\ last.step = "temp" /\ last.was_fallback
        /\ last.frame = U32(0, 4)
        /\ hist[i].fb_ticks = 2
        /\ tr[i].fallback_frame_start = Some(U32(0, 2))


\* C34: every color sequence the daemon passes to set_rgb_colors for a port
\* has exactly that port's led_count entries, in all three engine states
\* (normal, transitioning, fallback) and for every effect variant: every
\* render of Effect::generate has led_count entries, and the snapshot held
\* during a transition has as many entries as the live target it is blended
\* with, so the pointwise blend drops no LED.
C34_LedCountEntries ==
    /\ last.step \in {"normal", "temp"} =>
            \A c \in CallsOf("set_rgb_colors") : Len(c.colors) = LastEntry.led_count
    /\ \A i \in DOMAIN tr :
            IsSome(tr[i].transition_from_colors) =>
                /\ Len(Unwrap(tr[i].transition_from_colors)) = TempPorts[i].led_count
                /\ Len(ZoneRender(i, tr[i].current_zone_idx, frame)) = TempPorts[i].led_count
    /\ (IsSome(call) /\ pc = "pure" /\ Unwrap(call).fn = "generate") =>
            Len(Unwrap(call).colors) = Unwrap(call).led_count

\* a blend of a running transition was sent, with led_count entries
C34_Witness ==
    \E i \in DOMAIN tr :
        /\ Blending(i)
        /\ hist[i].ticks = 2
        /\ Len(last.calls) = 1
        /\ Len(Sent) = 20

\* the fallback blink was sent, with led_count entries
C34_WitnessFallback ==
    /\ last.step = "temp" /\ last.was_fallback
    /\ Len(last.calls) = 1
    /\ Len(Sent) = 20
    /\ Sent # Repeat(OFF, 20)

\* a render of each variant taken as given has led_count entries
C34_WitnessAnimated ==
    /\ IsSome(call) /\ pc = "pure"
    /\ Unwrap(call).fn = "generate"
    /\ Unwrap(call).effect.kind = "Ripple"
    /\ Len(Unwrap(call).colors) = 20


(***************************************************************************)
(* The chunks of set_rgb_colors                                            *)
(***************************************************************************)
\* the payload of chunk k for the colors of the call c, as the claim has it:
\* the header and the colors with indices from 19(k-1) up to min(19k, n)
ChunkPayload(c, k) ==
    <<50, 82, c.port, MODE_PER_LED, 3, k, 0>>
        \o GrbBytes(c.colors, Min(MAX_COLORS_PER_CHUNK * (k - 1), Len(c.colors)),
                    Min(MAX_COLORS_PER_CHUNK * k, Len(c.colors)))

\* the chunks the call c wrote are the claimed ones, each within the 64 bytes
\* of the report payload
ChunksAsClaimed(c) ==
    \A w \in 1..Len(c.io) :
        c.io[w].ev = "write" =>
            /\ ChunkIdOf(c.io[w]) \in 1..RGB_CHUNK_COUNT
            /\ Len(ChunkPayload(c, ChunkIdOf(c.io[w]))) <= REPORT_SIZE - 1
            /\ c.io[w].report = <<0>> \o ChunkPayload(c, ChunkIdOf(c.io[w]))
                    \o [j \in 1..(REPORT_SIZE - 1 - Len(ChunkPayload(c, ChunkIdOf(c.io[w])))) |-> 0]

\* C35: set_rgb_colors completes with a success or an error result for every
\* length of the color sequence: for n colors, chunk k (k = 1, 2) carries
\* exactly the colors with indices from 19(k-1) up to min(19k, n), a sequence
\* of fewer than 19 colors (the empty one included) gives an empty second
\* chunk, and the chunk payload never exceeds the 64 bytes of the report
\* payload.
C35_ChunksForEveryLength ==
    \A c \in CallsOf("set_rgb_colors") :
        /\ ~c.panic
        /\ ChunksAsClaimed(c)
        /\ (ValidPort(c.port) /\ Len(Writes(c.io)) = 2) =>
                (Len(c.colors) < MAX_COLORS_PER_CHUNK =>
                    Writes(c.io)[2].report
                        = Report(<<50, 82, c.port, MODE_PER_LED, 3, 2, 0>>))

\* the same for the calls that returned a result
C35_ChunksOfCompletedCalls ==
    \A c \in CallsOf("set_rgb_colors") :
        /\ ChunksAsClaimed(c)
        /\ c.panic <=> (/\ ValidPort(c.port)
                        /\ Len(c.colors) < MAX_COLORS_PER_CHUNK
                        /\ Len(Writes(c.io)) = 1
                        /\ ExchangeOk(c.io, 1))



(***************************************************************************)
(* C36: a configured speed reaches the device by the end of the first      *)
(* iteration                                                               *)
(***************************************************************************)
\* set_speed was issued for the port before the loop or in the current
\* iteration
SpeedIssuedFor(port) ==
    \/ \E j \in 1..Len(setup) : setup[j].fn = "set_speed" /\ setup[j].port = port
    \/ \E j \in 1..Len(last.sweep) : last.sweep[j].port = port /\ last.sweep[j].speed >= 1

\* the two port loops of the first iteration have run to their end
FirstIterationDone == pc = "end_frame" /\ frame = U32Zero

\* C36: when the first loop iteration has run to its end, set_speed has been
\* issued at least once for every configured port that specifies a fan
\* speed, for both values of speed_once_at_startup, temperature-reactive
\* ports included
C36_SpeedByFirstIteration ==
    FirstIterationDone =>
        \A i \in 1..Len(config.ports) :
            IsSome(config.ports[i].speed) => SpeedIssuedFor(config.ports[i].port)

\* what the loops do: the speed of a port has been issued by the end of the
\* first iteration exactly when the startup pass ran or the port is left to
\* the normal-port loop
C36_SpeedExceptTempWithoutStartup ==
    FirstIterationDone =>
        \A i \in 1..Len(config.ports) :
            IsSome(config.ports[i].speed) =>
                (SpeedIssuedFor(config.ports[i].port) <=>
                    (config.speed_once_at_startup \/ ~IsTempPort(config.ports[i].port)))



(***************************************************************************)
(* C37: ticks that leave the temperature-reactive state alone              *)
(***************************************************************************)
\* the step now taken is a successful read of TempPorts[idx] that selects the
\* zone the port is in
ReadsSameZone == ReadsOk /\ ~Switches

\* the transition of TempPorts[idx] has frames left at the current frame
TransitionRunning ==
    /\ IsSome(tr[idx].transition_start_frame)
    /\ U32Below(saturating_sub(frame, Unwrap(tr[idx].transition_start_frame)),
                Unwrap(TempPorts[idx].effect).config.transition_frames)

\* C37: a successful sensor read that selects the already-current zone sets
\* last_sensor_read and leaves current_zone_idx and the fallback fields as
\* they were; it does not write transition_start_frame or
\* transition_from_colors, so a transition with frames left goes on unchanged
\* (neither restarted nor cancelled) and the only change the tick can make to
\* them is the clearing of a transition that has run out.  A tick in fallback
\* mode leaves the whole state of the port (zone index, transition state,
\* last_sensor_read, fallback fields) unchanged.
C37_SameZoneAndFallbackTicks ==
    [][/\ ReadsSameZone =>
            /\ tr'[idx].sensor_age = 0
            /\ tr'[idx].current_zone_idx = tr[idx].current_zone_idx
            /\ tr'[idx].fallback_mode = tr[idx].fallback_mode
            /\ tr'[idx].fallback_frame_start = tr[idx].fallback_frame_start
            /\ tr'[idx].transition_start_frame \in {tr[idx].transition_start_frame, None}
            /\ tr'[idx].transition_from_colors \in {tr[idx].transition_from_colors, None}
            /\ TransitionRunning =>
                /\ tr'[idx].transition_start_frame = tr[idx].transition_start_frame
                /\ tr'[idx].transition_from_colors = tr[idx].transition_from_colors
       /\ (TempTick /\ tr[idx].fallback_mode) => tr'[idx] = tr[idx]
    ]_vars

\* a read two frames into a running transition has selected the zone the port
\* is in: the transition still starts at frame 0
C37_Witness ==
    /\ last.step = "temp" /\ last.sensor = "ok"
    /\ last.frame = U32(0, 2)
    /\ tr[TempIdx(last.port)].transition_start_frame = Some(U32Zero)
    /\ IsSome(tr[TempIdx(last.port)].transition_from_colors)
    /\ tr[TempIdx(last.port)].sensor_age = 0

\* a tick in fallback mode of a port that was in a transition
C37_WitnessFallback ==
    /\ last.step = "temp" /\ last.was_fallback
    /\ tr[TempIdx(last.port)].fallback_mode
    /\ IsSome(tr[TempIdx(last.port)].transition_start_frame)
    /\ tr[TempIdx(last.port)].sensor_age > 0

====
